---- MODULE Spec2Model ----
(***************************************************************************)
(* The analyzer handlers CreateTypeDag and CheckMsbLsb of the veryl        *)
(* toolchain, driven by the walker: every production of the parse tree is  *)
(* delivered to every handler once with HandlerPoint::Before and once with *)
(* HandlerPoint::After.  The parse tree is the input; the walker's         *)
(* recursion stack (walk) generates it production by production.           *)
(*                                                                         *)
(* type_dag, symbol_table, msb_table and namespace_table are collaborators *)
(* whose code is not part of the handlers; they are modelled from their    *)
(* documented interface.                                                   *)
(*                                                                         *)
(* The alignment engines of the emitter and of the formatter (Align and    *)
(* Aligner) walk the same tree item by item, one item per source line, and *)
(* leave the paddings in additions.                                        *)
(***************************************************************************)
EXTENDS Integers, Sequences, FiniteSets, TLC

\* ------------------------------------------------------------------ bounds
\* Symbols 1..NumSyms resolve in the type DAG; path 0 names no symbol.
NumSyms == 3
\* Top-level ImportDeclarations the pre-scan of Veryl may find.
MaxImports == 1
\* Diagnostics of CreateTypeDag after which no further erroneous input comes.
MaxErrors == 1
\* Depth of the walker's recursion.
MaxDepth == 6
\* Children of one ExpressionIdentifier (its ScopedIdentifier and Selects).
MaxChildren == 3
\* Identifiers of one ScopedIdentifier.
MaxPath == 1
\* Msb and Lsb tokens of the file (token ids 1..MaxTokens).
MaxTokens == 2
\* Nested trace_type calls the stack holds before it overflows.
StackDepth == 4
\* Source lines holding an item the aligner walks.
MaxLines == 3
\* Lines from one item to the next: 1, or more with blank lines between.
MaxGap == 2

VARIABLES
    walk,                      \* the walker's recursion stack of open productions
    pass,                      \* "start" | "walk" | "done" | "abort" | "panic"
    last,                      \* the callback the walker dispatched last
    next_token,                \* id of the next Msb/Lsb token
    declared,                  \* symbols whose declaration was visited
    \* CreateTypeDag
    errors, parent, ctx, file_scope_import, owned,
    \* type_dag
    dag_nodes, dag_edges,
    \* CheckMsbLsb
    msb_errors, identifier_path, select_dimension,
    in_expression_identifier, in_select,
    \* msb_table
    msb_table,
    \* Aligner (emitter or formatter)
    aligner,                   \* the engine: additions, aligns, in_expression
    input,                     \* the items of the tree walked, in source order
    run                        \* [n, pos, first]: the run of align over input

walk_vars == <<walk, pass, last, next_token, declared>>
dag_vars == <<errors, parent, ctx, file_scope_import, owned, dag_nodes, dag_edges>>
msb_vars == <<msb_errors, identifier_path, select_dimension,
              in_expression_identifier, in_select, msb_table>>
align_vars == <<aligner, input, run>>
vars == <<walk_vars, dag_vars, msb_vars, align_vars>>

Syms == 1..NumSyms
Paths == 0..NumSyms

\* Option<T>: None is the empty sequence, Some(x) the sequence <<x>>.
None == <<>>
Some(x) == <<x>>

Last(s) == s[Len(s)]
\* Vec::pop: None (no change) on an empty vector.
Pop(s) == IF s = <<>> THEN s ELSE SubSeq(s, 1, Len(s) - 1)

SeqsUpTo(S, n) == UNION {[1..k -> S] : k \in 0..n}

\* ---------------------------------------------------------------- type_dag
\* Edges are triples <<src, dst, context>>.  insert_node resolves the path to
\* its symbol and returns the symbol's node; the handler never looks into a
\* node id, so the id of a node is identified with the symbol it stands for.

Succ(edges, S) == {e[2] : e \in {x \in edges : x[1] \in S}}

RECURSIVE Closure(_, _)
Closure(edges, S) ==
    LET T == S \cup Succ(edges, S)
    IN  IF T = S THEN S ELSE Closure(edges, T)

\* A path of one or more edges leads from a to b.
Reaches(edges, a, b) == b \in Closure(edges, Succ(edges, {a}))

type_dag_insert_node(nodes, path) ==
    IF path \notin Syms
    THEN [ok |-> FALSE, nodes |-> nodes, id |-> 0]
    ELSE [ok |-> TRUE, nodes |-> nodes \cup {path}, id |-> path]

type_dag_would_cycle(edges, src, dst) == src \in Closure(edges, {dst})

type_dag_insert_edge(edges, src, dst, context) ==
    IF type_dag_would_cycle(edges, src, dst)
    THEN [ok |-> FALSE, edges |-> edges]
    ELSE [ok |-> TRUE, edges |-> edges \cup {<<src, dst, context>>}]

type_dag_exist_edge(edges, src, dst) ==
    \E e \in edges : e[1] = src /\ e[2] = dst

type_dag_remove_edge(edges, src, dst) ==
    {e \in edges : ~(e[1] = src /\ e[2] = dst)}

\* ----------------------------------------------------------- CreateTypeDag
\* The handler and the DAG it writes, as one value the callbacks transform.
CreateTypeDag ==
    [errors |-> errors, parent |-> parent, ctx |-> ctx,
     file_scope_import |-> file_scope_import, owned |-> owned,
     nodes |-> dag_nodes, edges |-> dag_edges]

\* DagError::Cyclic(s, e) and DagError::UnableToResolve as diagnostics.  The
\* name of a symbol and its token are both identified with the symbol.
to_analyzer_error_cyclic(s, e) ==
    [kind |-> "cyclic_type_dependency", start |-> s, end |-> e, token |-> e]

to_analyzer_error_unresolved(path) ==
    [kind |-> "undefined_identifier", start |-> path, end |-> path, token |-> path]

\* insert_node dropping the error of the DAG.
insert_node_silent(self, path) ==
    LET r == type_dag_insert_node(self.nodes, path)
    IN  IF r.ok
        THEN [self |-> [self EXCEPT !.nodes = r.nodes], id |-> Some(r.id)]
        ELSE [self |-> self, id |-> None]

insert_node(self, path) ==
    LET r == type_dag_insert_node(self.nodes, path)
    IN  IF r.ok
        THEN [self |-> [self EXCEPT !.nodes = r.nodes], id |-> Some(r.id)]
        ELSE [self |-> [self EXCEPT !.errors =
                            Append(@, to_analyzer_error_unresolved(path))],
              id |-> None]

\* insert_edge adding the edge although the DAG refused it.
insert_edge_unchecked(self, s, e, edge) ==
    LET r == type_dag_insert_edge(self.edges, e, s, edge)
    IN  IF r.ok
        THEN [self EXCEPT !.edges = r.edges]
        ELSE [self EXCEPT !.edges = @ \cup {<<e, s, edge>>},
                          !.errors = Append(@, to_analyzer_error_cyclic(e, s))]

\* insert_edge handing its arguments to the DAG in its own order.
insert_edge_not_reversed(self, s, e, edge) ==
    LET r == type_dag_insert_edge(self.edges, s, e, edge)
    IN  IF r.ok
        THEN [self EXCEPT !.edges = r.edges]
        ELSE [self EXCEPT !.errors = Append(@, to_analyzer_error_cyclic(s, e))]

\* Reversing this order to make traversal work: the DAG gets (e, s).
insert_edge(self, s, e, edge) ==
    LET r == type_dag_insert_edge(self.edges, e, s, edge)
    IN  IF r.ok
        THEN [self EXCEPT !.edges = r.edges]
        ELSE [self EXCEPT !.errors =
                  Append(@, to_analyzer_error_cyclic(e, s))]

\* insert_owned leaving an earlier edge to the owned type in place.
insert_owned_keep_edge(self, p, child) ==
    [self EXCEPT !.owned[p] = Append(@, child)]

insert_owned(self, p, child) ==
    LET e1 == IF type_dag_exist_edge(self.edges, child, p)
              THEN type_dag_remove_edge(self.edges, child, p)
              ELSE self.edges
    IN  [self EXCEPT !.edges = e1, !.owned[p] = Append(@, child)]

is_owned(self, p, child) ==
    \E i \in 1..Len(self.owned[p]) : self.owned[p][i] = child

\* declare_node requesting the ownership edge like a reference of the parent.
declare_node_as_reference(self, path) ==
    LET r == insert_node(self, path)
    IN  IF r.id # None /\ r.self.parent # <<>>
        THEN [self |-> insert_edge(insert_owned(r.self, Last(r.self.parent), r.id[1]),
                                   Last(r.self.parent), r.id[1], Last(r.self.ctx)),
              id |-> r.id]
        ELSE r

\* The part all declaration callbacks share: insert the node and, under an
\* existing parent, record the ownership and its edge.
declare_node(self, path) ==
    LET r == insert_node(self, path)
    IN  IF r.id # None /\ r.self.parent # <<>>
        THEN [self |-> insert_edge(insert_owned(r.self, Last(r.self.parent), r.id[1]),
                                   r.id[1], Last(r.self.parent), Last(r.self.ctx)),
              id |-> r.id]
        ELSE r

\* struct_union, modport and enum declarations, Before.
nested_scope_before(self, path, context) ==
    LET r == declare_node(self, path)
        s1 == IF r.id # None
              THEN [r.self EXCEPT !.parent = Append(@, r.id[1])]
              ELSE r.self
    IN  [s1 EXCEPT !.ctx = Append(@, context)]

RECURSIVE import_edges(_, _)
import_edges(self, imports) ==
    IF imports = <<>> THEN self
    ELSE LET child == Head(imports)
             s1 == IF self.parent # <<>> /\ child # None
                   THEN insert_edge(self, Last(self.parent), child[1], Last(self.ctx))
                   ELSE self
         IN  import_edges(s1, Tail(imports))

\* module, interface and package declarations, Before.
file_scope_before(self, path, context) ==
    LET r == insert_node(self, path)
        s1 == IF r.id # None
              THEN [r.self EXCEPT !.parent = Append(@, r.id[1])]
              ELSE r.self
        s2 == [s1 EXCEPT !.ctx = Append(@, context)]
    IN  import_edges(s2, s2.file_scope_import)

\* The After branch popping parent only.
scope_after_keep_ctx(self) ==
    [self EXCEPT !.parent = Pop(@)]

\* The After branch popping ctx only.
scope_after_keep_parent(self) ==
    [self EXCEPT !.ctx = Pop(@)]

\* The After branch of every scope-opening declaration.
scope_after(self) ==
    [self EXCEPT !.parent = Pop(@), !.ctx = Pop(@)]

struct_union_declaration(self, point, path, struct_union) ==
    IF point = "Before" THEN nested_scope_before(self, path, struct_union)
    ELSE scope_after(self)

local_declaration(self, point, path) ==
    IF point = "Before" THEN declare_node(self, path).self ELSE self

type_def_declaration(self, point, path) ==
    IF point = "Before" THEN declare_node(self, path).self ELSE self

\* scoped_identifier without the test of ctx.
scoped_identifier_any_ctx(self, point, path) ==
    IF point = "Before"
    THEN LET r == insert_node(self, path)
         IN  IF r.self.parent # <<>> /\ r.id # None
                /\ ~is_owned(r.self, Last(r.self.parent), r.id[1])
             THEN insert_edge(r.self, Last(r.self.parent), r.id[1], "ExpressionIdentifier")
             ELSE r.self
    ELSE self

\* scoped_identifier without the test of owned.
scoped_identifier_ignore_owned(self, point, path) ==
    IF point = "Before" /\ self.ctx # <<>> /\ Last(self.ctx) # "ExpressionIdentifier"
    THEN LET r == insert_node(self, path)
         IN  IF r.self.parent # <<>> /\ r.id # None
             THEN insert_edge(r.self, Last(r.self.parent), r.id[1], Last(r.self.ctx))
             ELSE r.self
    ELSE self

scoped_identifier(self, point, path) ==
    IF point = "Before" /\ self.ctx # <<>> /\ Last(self.ctx) # "ExpressionIdentifier"
    THEN LET r == insert_node(self, path)
         IN  IF r.self.parent # <<>> /\ r.id # None
                /\ ~is_owned(r.self, Last(r.self.parent), r.id[1])
             THEN insert_edge(r.self, Last(r.self.parent), r.id[1], Last(r.self.ctx))
             ELSE r.self
    ELSE self

expression_identifier(self, point) ==
    IF point = "Before"
    THEN [self EXCEPT !.ctx = Append(@, "ExpressionIdentifier")]
    ELSE [self EXCEPT !.ctx = Pop(@)]

modport_declaration(self, point, path) ==
    IF point = "Before" THEN nested_scope_before(self, path, "Modport")
    ELSE scope_after(self)

enum_declaration(self, point, path) ==
    IF point = "Before" THEN nested_scope_before(self, path, "Enum")
    ELSE scope_after(self)

module_declaration(self, point, path) ==
    IF point = "Before" THEN file_scope_before(self, path, "Module")
    ELSE scope_after(self)

interface_declaration(self, point, path) ==
    IF point = "Before" THEN file_scope_before(self, path, "Interface")
    ELSE scope_after(self)

package_declaration(self, point, path) ==
    IF point = "Before" THEN file_scope_before(self, path, "Package")
    ELSE scope_after(self)

\* The pre-scan keeping only the imports whose insert_node succeeded.
RECURSIVE veryl_imports_skip_failed(_, _)
veryl_imports_skip_failed(self, imports) ==
    IF imports = <<>> THEN self
    ELSE LET r == insert_node(self, Head(imports))
         IN  veryl_imports_skip_failed(
                 IF r.id = None THEN r.self
                 ELSE [r.self EXCEPT !.file_scope_import = Append(@, r.id)],
                 Tail(imports))

\* The pre-scan of the top-level ImportDeclarations.
RECURSIVE veryl_imports(_, _)
veryl_imports(self, imports) ==
    IF imports = <<>> THEN self
    ELSE LET r == insert_node(self, Head(imports))
         IN  veryl_imports([r.self EXCEPT !.file_scope_import = Append(@, r.id)],
                           Tail(imports))

veryl(self, point, imports) ==
    IF point = "Before" THEN veryl_imports(self, imports) ELSE self

SetDag(self) ==
    /\ errors' = self.errors
    /\ parent' = self.parent
    /\ ctx' = self.ctx
    /\ file_scope_import' = self.file_scope_import
    /\ owned' = self.owned
    /\ dag_nodes' = self.nodes
    /\ dag_edges' = self.edges

\* ------------------------------------------------------------ symbol_table
\* The symbols CheckMsbLsb can meet, keyed by the interned text of their
\* identifier.  A type is {kind, path, array, width}; array and width list
\* the dimension expressions outermost first.  Text 6 names no symbol.
\*   1  var a: logic<8>[4]        2  port b: T[2]       3  port q (untyped)
\*   4  module m                  5  var x: A           7  type T = U<16>
\*   8  type U = logic<2, 3>[5]   9  type A = B         10 type B = A
\*   11 var y: m[3] (m is the module 4)                  12 var z: W<4> (W is 6)
Type(kind, path, array, width) ==
    [kind |-> kind, path |-> path, array |-> array, width |-> width]

SymbolTable ==
    (1 :> [kind |-> "Variable", type |-> Some(Type("Logic", 0, <<"a.array0">>, <<"a.width0">>))])
 @@ (2 :> [kind |-> "Port", type |-> Some(Type("UserDefined", 7, <<"b.array0">>, <<>>))])
 @@ (3 :> [kind |-> "Port", type |-> None])
 @@ (4 :> [kind |-> "Module", type |-> None])
 @@ (5 :> [kind |-> "Variable", type |-> Some(Type("UserDefined", 9, <<>>, <<>>))])
 @@ (7 :> [kind |-> "TypeDef", type |-> Some(Type("UserDefined", 8, <<>>, <<"T.width0">>))])
 @@ (8 :> [kind |-> "TypeDef",
           type |-> Some(Type("Logic", 0, <<"U.array0">>, <<"U.width0", "U.width1">>))])
 @@ (9 :> [kind |-> "TypeDef", type |-> Some(Type("UserDefined", 10, <<>>, <<>>))])
 @@ (10 :> [kind |-> "TypeDef", type |-> Some(Type("UserDefined", 9, <<>>, <<>>))])
 @@ (11 :> [kind |-> "Variable", type |-> Some(Type("UserDefined", 4, <<"y.array0">>, <<>>))])
 @@ (12 :> [kind |-> "Variable", type |-> Some(Type("UserDefined", 6, <<>>, <<"z.width0">>))])

\* Texts of the identifier tokens of expressions.
Texts == (1..6) \cup {11, 12}

\* resolve(SymbolPathNamespace): Some(symbol) or None (not found).  All
\* symbols live in one namespace; a path of several identifiers names none.
symbol_table_resolve(path) ==
    IF Len(path) = 1 /\ path[1] \in DOMAIN SymbolTable
    THEN Some(SymbolTable[path[1]])
    ELSE None

\* msb_table::insert: a later insert for the same token id overwrites.
msb_table_insert(table, id, expression) ==
    [t \in DOMAIN table \cup {id} |-> IF t = id THEN expression ELSE table[t]]

\* -------------------------------------------------------------- CheckMsbLsb
CheckMsbLsb ==
    [errors |-> msb_errors, identifier_path |-> identifier_path,
     select_dimension |-> select_dimension,
     in_expression_identifier |-> in_expression_identifier,
     in_select |-> in_select, table |-> msb_table,
     overflow |-> FALSE, underflow |-> FALSE]

\* trace_type returning the type alone, following no TypeDef.
trace_type_not_following(type, depth) ==
    [overflow |-> FALSE, types |-> <<type>>]

\* trace_type calls itself once per TypeDef it follows; depth is the number
\* of open calls.  A chain that needs more than StackDepth calls overflows
\* the stack and the process is killed.
RECURSIVE trace_type(_, _)
trace_type(type, depth) ==
    IF depth > StackDepth THEN [overflow |-> TRUE, types |-> <<>>]
    ELSE LET symbol == IF type.kind = "UserDefined"
                       THEN symbol_table_resolve(<<type.path>>)
                       ELSE None
         IN  IF symbol # None /\ symbol[1].kind = "TypeDef"
             THEN LET rest == trace_type(symbol[1].type[1], depth + 1)
                  IN  [overflow |-> rest.overflow, types |-> <<type>> \o rest.types]
             ELSE [overflow |-> FALSE, types |-> <<type>>]

\* The loop of msb over the traced types: Some(expression) of the selected
\* dimension or None.  sub_ok is false when a usize subtraction would have
\* gone below zero.
\* The loop looking into width before array.
RECURSIVE select_expression_width_first(_, _)
select_expression_width_first(types, k) ==
    IF types = <<>> THEN [expression |-> None, sub_ok |-> TRUE]
    ELSE LET t == Head(types)
         IN  IF k < Len(t.width)
             THEN [expression |-> Some(t.width[k + 1]), sub_ok |-> TRUE]
             ELSE LET k1 == k - Len(t.width)
                  IN  IF k1 < Len(t.array)
                      THEN [expression |-> Some(t.array[k1 + 1]), sub_ok |-> k1 >= 0]
                      ELSE LET r == select_expression_width_first(Tail(types),
                                                                  k1 - Len(t.array))
                           IN  [expression |-> r.expression,
                                sub_ok |-> r.sub_ok /\ k1 >= 0 /\ k1 - Len(t.array) >= 0]

RECURSIVE select_expression(_, _)
select_expression(types, k) ==
    IF types = <<>> THEN [expression |-> None, sub_ok |-> TRUE]
    ELSE LET t == Head(types)
         IN  IF k < Len(t.array)
             THEN [expression |-> Some(t.array[k + 1]), sub_ok |-> TRUE]
             ELSE LET k1 == k - Len(t.array)
                  IN  IF k1 < Len(t.width)
                      THEN [expression |-> Some(t.width[k1 + 1]), sub_ok |-> k1 >= 0]
                      ELSE LET r == select_expression(Tail(types), k1 - Len(t.width))
                           IN  [expression |-> r.expression,
                                sub_ok |-> r.sub_ok /\ k1 >= 0 /\ k1 - Len(t.width) >= 0]

msb_error(kind, token) == [kind |-> kind, token |-> token]

\* lsb reporting in both phases.
lsb_both_phases(self, point, token) ==
    IF ~(self.in_expression_identifier /\ self.in_select)
    THEN [self EXCEPT !.errors = Append(@, msb_error("invalid_lsb", token))]
    ELSE self

lsb(self, point, token) ==
    IF point = "Before" /\ ~(self.in_expression_identifier /\ self.in_select)
    THEN [self EXCEPT !.errors = Append(@, msb_error("invalid_lsb", token))]
    ELSE self

\* The declared type of the resolved symbol, if it is a Variable or a Port.
msb_type(found) ==
    IF found = None THEN None
    ELSE IF found[1].kind \in {"Variable", "Port"} THEN found[1].type ELSE None

\* The branch reporting nothing when no dimension was selected.
msb_resolve_silent(self, token) ==
    LET type == msb_type(symbol_table_resolve(Last(self.identifier_path)))
        traced == IF type = None THEN [overflow |-> FALSE, types |-> <<>>]
                  ELSE trace_type(type[1], 1)
        sel == select_expression(traced.types, Last(self.select_dimension))
    IN  IF traced.overflow THEN [self EXCEPT !.overflow = TRUE]
        ELSE IF ~sel.sub_ok THEN [self EXCEPT !.underflow = TRUE]
        ELSE IF sel.expression # None
        THEN [self EXCEPT !.table = msb_table_insert(@, token, sel.expression[1])]
        ELSE self

\* The branch of msb taken inside a Select of an expression identifier.
msb_resolve(self, token) ==
    LET type == msb_type(symbol_table_resolve(Last(self.identifier_path)))
        traced == IF type = None THEN [overflow |-> FALSE, types |-> <<>>]
                  ELSE trace_type(type[1], 1)
        sel == select_expression(traced.types, Last(self.select_dimension))
    IN  IF traced.overflow THEN [self EXCEPT !.overflow = TRUE]
        ELSE IF ~sel.sub_ok THEN [self EXCEPT !.underflow = TRUE]
        ELSE IF sel.expression # None
        THEN [self EXCEPT !.table = msb_table_insert(@, token, sel.expression[1])]
        ELSE [self EXCEPT !.errors = Append(@, msb_error("unknown_msb", token))]

\* The else branch reporting nothing.
msb_invalid_silent(self, token) == self

\* The branch of msb taken anywhere else.
msb_invalid(self, token) ==
    [self EXCEPT !.errors = Append(@, msb_error("invalid_msb", token))]

msb(self, point, token) ==
    IF point # "Before" THEN self
    ELSE IF self.in_expression_identifier /\ self.in_select
    THEN msb_resolve(self, token)
    ELSE msb_invalid(self, token)

identifier(self, point, text) ==
    IF point = "Before" /\ self.in_expression_identifier
    THEN [self EXCEPT !.identifier_path[Len(self.identifier_path)] = Append(@, text)]
    ELSE self

select(self, point) ==
    IF point = "Before"
    THEN [self EXCEPT !.in_select = TRUE]
    ELSE IF self.in_expression_identifier
         THEN [self EXCEPT !.in_select = FALSE,
                           !.select_dimension[Len(self.select_dimension)] = @ + 1]
         ELSE [self EXCEPT !.in_select = FALSE]

msb_expression_identifier(self, point) ==
    IF point = "Before"
    THEN [self EXCEPT !.identifier_path = Append(@, <<>>),
                      !.select_dimension = Append(@, 0),
                      !.in_expression_identifier = TRUE]
    ELSE [self EXCEPT !.identifier_path = Pop(@),
                      !.select_dimension = Pop(@),
                      !.in_expression_identifier = FALSE]

SetMsb(self) ==
    /\ msb_errors' = self.errors
    /\ identifier_path' = self.identifier_path
    /\ select_dimension' = self.select_dimension
    /\ in_expression_identifier' = self.in_expression_identifier
    /\ in_select' = self.in_select
    /\ msb_table' = self.table

\* ------------------------------------------------------------------- Align
\* A Token is {line, column, length}.  The emitter's Location carries
\* duplicated: Option<usize>; the formatter's does not.
Token(line, column, length) == [line |-> line, column |-> column, length |-> length]

Location(target, x) ==
    IF target = "emitter"
    THEN [line |-> x.line, column |-> x.column, length |-> x.length, duplicated |-> None]
    ELSE [line |-> x.line, column |-> x.column, length |-> x.length]

\* HashMap::insert: the value of an existing key is replaced.
HashMapInsert(map, key, value) == (key :> value) @@ map

\* #[derive(Default)] struct Align, with five history fields the code does
\* not have.  overlap: start_item met enable = true or finish_item met
\* enable = false (the emitter asserts it never happens; the formatter does
\* not look).  underflow: loc.line - self.line went below zero.  groups: the
\* groups finish_group closed, each with its rest, its max_width, the cause
\* and the additions as finish_group left them.  received: last_location
\* was set since the last start_item.  stale: finish_item recorded an item
\* that had received no location.
AlignDefault ==
    [enable |-> FALSE, index |-> 0, max_width |-> 0, width |-> 0, line |-> 0,
     rest |-> <<>>, additions |-> <<>>, last_location |-> None,
     overlap |-> FALSE, underflow |-> FALSE, groups |-> <<>>,
     received |-> FALSE, stale |-> FALSE]

\* A loop of finish_group that records the width in place of the padding.
RECURSIVE finish_group_rest_width(_, _, _)
finish_group_rest_width(additions, rest, max_width) ==
    IF rest = <<>> THEN additions
    ELSE finish_group_rest_width(
             HashMapInsert(additions, Head(rest)[1], Head(rest)[2]),
             Tail(rest), max_width)

\* for (loc, width) in &self.rest { additions.insert(*loc, max_width - width) }
RECURSIVE finish_group_rest(_, _, _)
finish_group_rest(additions, rest, max_width) ==
    IF rest = <<>> THEN additions
    ELSE finish_group_rest(
             HashMapInsert(additions, Head(rest)[1], max_width - Head(rest)[2]),
             Tail(rest), max_width)

finish_group(self) ==
    [self EXCEPT !.additions = finish_group_rest(@, self.rest, self.max_width),
                 !.rest = <<>>,
                 !.max_width = 0,
                 !.groups =
                     IF self.rest = <<>> THEN @
                     ELSE Append(@, [rest |-> self.rest,
                                     max_width |-> self.max_width,
                                     additions |-> finish_group_rest(
                                         self.additions, self.rest, self.max_width)])]

Max(a, b) == IF a >= b THEN a ELSE b

\* finish_item_push that leaves self.line at the line of the previous item.
finish_item_push_keep_line(self, loc, width) ==
    [self EXCEPT !.max_width = Max(@, width),
                 !.rest = Append(@, <<loc, width>>),
                 !.width = 0,
                 !.index = @ + 1]

\* finish_item_push that leaves max_width as it was.
finish_item_push_keep_max(self, loc, width) ==
    [self EXCEPT !.line = loc.line,
                 !.rest = Append(@, <<loc, width>>),
                 !.width = 0,
                 !.index = @ + 1]

\* self.max_width = u32::max(self.max_width, self.width); self.line = loc.line;
\* self.rest.push((loc, self.width)); self.width = 0; self.index += 1;
finish_item_push(self, loc, width) ==
    [self EXCEPT !.max_width = Max(@, width),
                 !.line = loc.line,
                 !.rest = Append(@, <<loc, width>>),
                 !.width = 0,
                 !.index = @ + 1]

\* finish_item that never closes the group.
finish_item_no_flush(self) ==
    IF self.last_location = None
    THEN [self EXCEPT !.overlap = @ \/ ~self.enable, !.enable = FALSE]
    ELSE finish_item_push([self EXCEPT !.overlap = @ \/ ~self.enable,
                                       !.enable = FALSE,
                                       !.stale = @ \/ ~self.received],
                          self.last_location[1], self.width)

\* finish_item that closes the group at every new line.
finish_item_flush_each_line(self) ==
    IF self.last_location = None
    THEN [self EXCEPT !.overlap = @ \/ ~self.enable, !.enable = FALSE]
    ELSE finish_item_push(
             IF self.last_location[1].line - self.line > 0
             THEN finish_group([self EXCEPT !.overlap = @ \/ ~self.enable,
                                            !.enable = FALSE,
                                            !.stale = @ \/ ~self.received])
             ELSE [self EXCEPT !.overlap = @ \/ ~self.enable, !.enable = FALSE,
                               !.stale = @ \/ ~self.received],
             self.last_location[1], self.width)

\* if loc.line - self.line > 1 { self.finish_group(); }
\* loc.line - self.line is a u32 subtraction: below zero it panics in a
\* build with overflow checks and wraps to a value above 1 without them.
finish_item_flush(self, loc) ==
    IF loc.line < self.line THEN [finish_group(self) EXCEPT !.underflow = TRUE]
    ELSE IF loc.line - self.line > 1 THEN finish_group(self)
    ELSE self

finish_item(self) ==
    IF self.last_location = None
    THEN [self EXCEPT !.overlap = @ \/ ~self.enable, !.enable = FALSE]
    ELSE finish_item_push(
             finish_item_flush([self EXCEPT !.overlap = @ \/ ~self.enable,
                                            !.enable = FALSE,
                                            !.stale = @ \/ ~self.received],
                               self.last_location[1]),
             self.last_location[1], self.width)

start_item(self) ==
    [self EXCEPT !.overlap = @ \/ self.enable, !.enable = TRUE, !.width = 0,
                 !.received = FALSE]

\* token that measures also while enable is false.
token_any_time(self, target, x) ==
    [self EXCEPT !.width = @ + x.length,
                 !.last_location = Some(Location(target, x)),
                 !.received = TRUE]

token(self, target, x) ==
    IF self.enable
    THEN [self EXCEPT !.width = @ + x.length,
                      !.last_location = Some(Location(target, x)),
                      !.received = TRUE]
    ELSE self

dummy_location(self, x) ==
    IF self.enable THEN [self EXCEPT !.last_location = Some(x), !.received = TRUE]
    ELSE self

\* formatter only
dummy_token(self, target, x) ==
    IF self.enable
    THEN [self EXCEPT !.last_location = Some(Location(target, x)), !.received = TRUE]
    ELSE self

\* duplicated_token that records under the key of the token itself.
duplicated_token_same_key(self, x, i) ==
    IF self.enable
    THEN [self EXCEPT !.width = @ + x.length,
                      !.last_location = Some(Location("emitter", x)),
                      !.received = TRUE]
    ELSE self

\* emitter only
duplicated_token(self, x, i) ==
    IF self.enable
    THEN [self EXCEPT !.width = @ + x.length,
                      !.last_location =
                          Some([Location("emitter", x) EXCEPT !.duplicated = Some(i)]),
                      !.received = TRUE]
    ELSE self

space(self, x) ==
    IF self.enable THEN [self EXCEPT !.width = @ + x] ELSE self

\* ----------------------------------------------------------------- Aligner
\* mod align_kind
IDENTIFIER == 0
TYPE == 1
EXPRESSION == 2
WIDTH == 3
ARRAY == 4
ASSIGNMENT == 5
PARAMETER == 6
DIRECTION == 7
CLOCK_DOMAIN == 8

Targets == {"emitter", "formatter"}

\* aligns: [Align; 8] in the emitter, [Align; 9] in the formatter.
AlignKinds(target) == IF target = "emitter" THEN 0..7 ELSE 0..8

\* Aligner::new() is Default::default().  panicked is "none" until the run
\* is cut short by an assert!, an unwrap() of None or an unreachable!().
Aligner_new(target) ==
    [target |-> target,
     additions |-> <<>>,
     aligns |-> [k \in AlignKinds(target) |-> AlignDefault],
     in_expression |-> <<>>,
     panicked |-> "none"]

\* An engine that keeps what an earlier run left in it.
Aligner_reused(left, target) == [left EXCEPT !.panicked = "none"]

\* let mut aligner = Aligner::new(): every run starts on a new engine,
\* whatever engine an earlier run left behind.
Aligner_fresh(left, target) == Aligner_new(target)

panic(self, what) == [self EXCEPT !.panicked = what]

Live(self) == self.panicked = "none"

\* self.aligns[kind].start_item(); the emitter's assert!(!self.enable).
aligns_start_item(self, kind) ==
    IF ~Live(self) THEN self
    ELSE IF self.target = "emitter" /\ self.aligns[kind].enable
    THEN panic([self EXCEPT !.aligns[kind] = start_item(@)], "assert")
    ELSE [self EXCEPT !.aligns[kind] = start_item(@)]

\* self.aligns[kind].finish_item(); the emitter's assert!(self.enable).
aligns_finish_item(self, kind) ==
    IF ~Live(self) THEN self
    ELSE IF self.target = "emitter" /\ ~self.aligns[kind].enable
    THEN panic([self EXCEPT !.aligns[kind] = finish_item(@)], "assert")
    ELSE [self EXCEPT !.aligns[kind] = finish_item(@)]

\* let loc = self.aligns[from].last_location;
\* self.aligns[kind].dummy_location(loc.unwrap());
aligns_dummy_location(self, kind, from) ==
    IF ~Live(self) THEN self
    ELSE IF self.aligns[from].last_location = None THEN panic(self, "unwrap")
    ELSE [self EXCEPT !.aligns[kind] =
                          dummy_location(@, self.aligns[from].last_location[1])]

aligns_dummy_token(self, kind, x) ==
    IF ~Live(self) THEN self
    ELSE [self EXCEPT !.aligns[kind] = dummy_token(@, self.target, x)]

aligns_duplicated_token(self, kind, x, i) ==
    IF ~Live(self) THEN self
    ELSE [self EXCEPT !.aligns[kind] = duplicated_token(@, x, i)]

Aligner_finish_group(self) ==
    IF ~Live(self) THEN self
    ELSE [self EXCEPT !.aligns = [k \in DOMAIN self.aligns |-> finish_group(self.aligns[k])]]

reset_align(self) == Aligner_finish_group(self)

\* An entry that replaces the value where the code adds to it.
entry_replace(additions, loc, y) == HashMapInsert(additions, loc, y)

\* formatter: self.additions.entry(loc).and_modify(|val| *val += width)
\*                .or_insert(width)
entry_add(additions, loc, y) ==
    IF loc \in DOMAIN additions
    THEN [additions EXCEPT ![loc] = @ + y]
    ELSE HashMapInsert(additions, loc, y)

insert(self, x, width) ==
    IF ~Live(self) THEN self
    ELSE [self EXCEPT !.additions = entry_add(@, Location(self.target, x), width)]

Aligner_space(self, repeat) ==
    IF ~Live(self) THEN self
    ELSE [self EXCEPT !.aligns = [k \in DOMAIN self.aligns |-> space(self.aligns[k], repeat)]]

veryl_token(self, arg) ==
    IF ~Live(self) THEN self
    ELSE [self EXCEPT !.aligns =
              [k \in DOMAIN self.aligns |-> token(self.aligns[k], self.target, arg)]]

\* ---------------------------------------------------- Aligner: VerylWalker
\* symbol_table::resolve returned not-found (None) or a symbol; prefix and
\* suffix are the lengths of the strings of a Port or Variable (0: none).
identifier_with_prefix_suffix(x, prefix, suffix) ==
    [x EXCEPT !.length = prefix + @ + suffix]

\* (prefix, suffix) of the lookup; (None, None) when it found nothing.
prefix_suffix(symbol) ==
    IF symbol = None THEN [prefix |-> 0, suffix |-> 0]
    ELSE [prefix |-> symbol[1].prefix, suffix |-> symbol[1].suffix]

\* Identifier: overridden by the emitter only.
Aligner_identifier(self, arg) ==
    IF self.target = "emitter"
    THEN veryl_token(self, identifier_with_prefix_suffix(
                               arg.identifier_token,
                               prefix_suffix(arg.symbol).prefix,
                               prefix_suffix(arg.symbol).suffix))
    ELSE veryl_token(self, arg.identifier_token)

\* HierarchicalIdentifier without select and without member: the emitter
\* meets unreachable!() when the lookup finds nothing.
hierarchical_identifier(self, arg) ==
    IF ~Live(self) THEN self
    ELSE IF self.target = "emitter"
    THEN IF arg.symbol = None THEN panic(self, "unreachable")
         ELSE veryl_token(self, identifier_with_prefix_suffix(
                                    arg.identifier.identifier_token,
                                    prefix_suffix(arg.symbol).prefix,
                                    prefix_suffix(arg.symbol).suffix))
    ELSE veryl_token(self, arg.identifier.identifier_token)

\* ScopedIdentifier: the emitter emits the token only when the lookup
\* succeeds, with the text of the symbol in place of the token's.
Aligner_scoped_identifier(self, arg) ==
    IF self.target = "emitter"
    THEN IF arg.symbol # None
         THEN veryl_token(self, [arg.identifier EXCEPT !.length = arg.symbol[1].length])
         ELSE self
    ELSE veryl_token(self, arg.identifier)

in_expression_push(self) == [self EXCEPT !.in_expression = Append(@, <<>>)]
in_expression_pop(self) == [self EXCEPT !.in_expression = Pop(@)]

RECURSIVE expression(_, _)

\* CaseCondition is a RangeItem: an expression.
case_condition(self, arg) == expression(self, arg.expression)

\* CaseExpression with one condition and the default arm, as the default
\* walker of the emitter visits it.  The calls nest: the first call of the
\* handler is the innermost, the last one the outermost.
walker_case_expression(self, arg) ==
    veryl_token(
     expression(
      veryl_token(
       veryl_token(
        veryl_token(
         expression(
          veryl_token(
           case_condition(
            veryl_token(
             expression(
              veryl_token(self, arg.case),
              arg.expression),
             arg.l_brace),
            arg.case_condition),
           arg.colon),
          arg.expression0),
         arg.comma),
        arg.defaul),
       arg.colon0),
      arg.expression1),
     arg.r_brace)

\* The formatter measures the condition and the default keyword as EXPRESSION
\* items.
formatter_case_expression(self, arg) ==
    veryl_token(
     expression(
      veryl_token(
       aligns_finish_item(
        veryl_token(
         aligns_start_item(
          veryl_token(
           expression(
            veryl_token(
             aligns_finish_item(
              case_condition(
               aligns_start_item(
                veryl_token(
                 expression(
                  veryl_token(self, arg.case),
                  arg.expression),
                 arg.l_brace),
                EXPRESSION),
               arg.case_condition),
              EXPRESSION),
             arg.colon),
            arg.expression0),
           arg.comma),
          EXPRESSION),
         arg.defaul),
        EXPRESSION),
       arg.colon0),
      arg.expression1),
     arg.r_brace)

case_expression(self, arg) ==
    IF self.target = "formatter"
    THEN formatter_case_expression(self, arg)
    ELSE walker_case_expression(self, arg)

\* Factor: a number or a case expression.
factor(self, arg) ==
    IF arg.factor = "CaseExpression"
    THEN case_expression(self, arg.case_expression)
    ELSE veryl_token(self, arg.number)

\* Expression without operators.
expression(self, arg) ==
    in_expression_pop(factor(in_expression_push(self), arg))

\* The emitter's self.space(repeat) where the formatter has none.
emitter_space(self, repeat) ==
    IF self.target = "emitter" THEN Aligner_space(self, repeat) ELSE self

\* Width and Array with one expression; "-1:0".len() is 4.
width(self, arg) ==
    veryl_token(
     emitter_space(
      expression(
       veryl_token(self, arg.l_angle),
       arg.expression),
      4),
     arg.r_angle)

array(self, arg) ==
    veryl_token(
     emitter_space(
      expression(
       veryl_token(self, arg.l_bracket),
       arg.expression),
      4),
     arg.r_bracket)

\* match &*arg.scalar_type_group: the type of a ScalarType
scalar_type_group(self, arg) ==
    IF arg.group = "UserDefinedType"
    THEN Aligner_scoped_identifier(self, arg.user_defined_type)
    ELSE veryl_token(self, arg.variable_type)

\* the WIDTH item of a ScalarType, between start_item and finish_item
scalar_type_opt(self, arg) ==
    IF arg.width # None
    THEN width(emitter_space(self, 1), arg.width[1])
    ELSE aligns_dummy_location(self, WIDTH, TYPE)

\* ScalarType without modifiers: a user defined type or a variable type.
\* The emitter's first self.space(1) is its dummy space for implicit type.
scalar_type(self, arg) ==
    IF self.in_expression # <<>> THEN self
    ELSE aligns_finish_item(
          scalar_type_opt(
           aligns_start_item(
            aligns_finish_item(
             scalar_type_group(
              emitter_space(
               aligns_start_item(self, TYPE),
               1),
              arg),
             TYPE),
            WIDTH),
           arg),
          WIDTH)

\* the ARRAY item of an ArrayType, between start_item and finish_item
array_type_opt(self, arg) ==
    IF arg.array # None
    THEN array(Aligner_space(self, 1), arg.array[1])
    ELSE aligns_dummy_location(self, ARRAY,
             IF self.target = "emitter" THEN IDENTIFIER ELSE WIDTH)

array_type(self, arg) ==
    aligns_finish_item(
     array_type_opt(
      aligns_start_item(
       scalar_type(self, arg.scalar_type),
       ARRAY),
      arg),
     ARRAY)

\* ClockDomain: the back quote and the identifier, by the walker's default.
clock_domain(self, arg) ==
    Aligner_identifier(veryl_token(self, arg.back_quote), arg.identifier)

\* clock_domain_opt that measures the clock domain without the space after.
clock_domain_opt_no_space(self, arg, anchor) ==
    IF self.target # "formatter" THEN self
    ELSE IF arg.clock_domain # None
    THEN aligns_finish_item(
             clock_domain(aligns_start_item(self, CLOCK_DOMAIN),
                          arg.clock_domain[1]),
             CLOCK_DOMAIN)
    ELSE aligns_finish_item(
             aligns_dummy_token(aligns_start_item(self, CLOCK_DOMAIN),
                                CLOCK_DOMAIN, anchor),
             CLOCK_DOMAIN)

\* formatter: the CLOCK_DOMAIN item of a declaration: the clock domain and a
\* space, or without clock domain a dummy token at anchor.
clock_domain_opt(self, arg, anchor) ==
    IF self.target # "formatter" THEN self
    ELSE IF arg.clock_domain # None
    THEN aligns_finish_item(
             Aligner_space(
                 clock_domain(aligns_start_item(self, CLOCK_DOMAIN),
                              arg.clock_domain[1]),
                 1),
             CLOCK_DOMAIN)
    ELSE aligns_finish_item(
             aligns_dummy_token(aligns_start_item(self, CLOCK_DOMAIN),
                                CLOCK_DOMAIN, anchor),
             CLOCK_DOMAIN)

\* the CLOCK_DOMAIN item of a let or var: the dummy is at the colon.
clock_domain_item(self, arg) == clock_domain_opt(self, arg, arg.colon)

\* the IDENTIFIER item of a declaration: start_item, identifier, finish_item
identifier_item(self, arg) ==
    aligns_finish_item(
     Aligner_identifier(
      aligns_start_item(self, IDENTIFIER),
      arg.identifier),
     IDENTIFIER)

let_declaration(self, arg) ==
    veryl_token(
     expression(
      veryl_token(
       array_type(
        clock_domain_item(
         veryl_token(
          identifier_item(
           veryl_token(self, arg.let),
           arg),
          arg.colon),
         arg),
        arg.array_type),
       arg.equ),
      arg.expression),
     arg.semicolon)

var_declaration(self, arg) ==
    veryl_token(
     array_type(
      clock_domain_item(
       veryl_token(
        identifier_item(
         veryl_token(self, arg.var),
         arg),
        arg.colon),
       arg),
      arg.array_type),
     arg.semicolon)

let_statement(self, arg) ==
    veryl_token(
     expression(
      veryl_token(
       array_type(
        clock_domain_item(
         veryl_token(
          identifier_item(
           veryl_token(self, arg.let),
           arg),
          arg.colon),
         arg),
        arg.array_type),
       arg.equ),
      arg.expression),
     arg.semicolon)

\* Direction: the emitter measures no item and no token for a modport.
direction(self, arg) ==
    IF self.target = "emitter" /\ arg.kind = "modport" THEN self
    ELSE aligns_finish_item(
             veryl_token(aligns_start_item(self, DIRECTION), arg.token),
             DIRECTION)

\* PortTypeConcrete: the formatter's dummy is at the direction's token.
port_type_concrete(self, arg) ==
    array_type(
     clock_domain_opt(
      direction(self, arg.direction),
      arg, arg.direction.token),
     arg.array_type)

\* PortTypeAbstract without array: the formatter's dummy is at the colon.
port_type_abstract(self, arg, colon) ==
    veryl_token(clock_domain_opt(self, arg, colon), arg.interface)

port_declaration_item(self, arg) ==
    IF arg.group.port_type = "concrete"
    THEN port_type_concrete(veryl_token(identifier_item(self, arg), arg.colon),
                            arg.group)
    ELSE port_type_abstract(veryl_token(identifier_item(self, arg), arg.colon),
                            arg.group, arg.colon)

assign_declaration(self, arg) ==
    veryl_token(
     expression(
      veryl_token(
       aligns_finish_item(
        hierarchical_identifier(
         aligns_start_item(
          veryl_token(self, arg.assign),
          IDENTIFIER),
         arg.hierarchical_identifier),
        IDENTIFIER),
       arg.equ),
      arg.expression),
     arg.semicolon)

\* InstPortItem with an expression, after the IDENTIFIER item.
inst_port_item_opt(self, arg) ==
    aligns_finish_item(
     expression(
      aligns_start_item(
       Aligner_space(
        veryl_token(self, arg.colon),
        1),
       EXPRESSION),
      arg.expression[1]),
     EXPRESSION)

\* InstPortItem without expression, after the IDENTIFIER item.  The emitter
\* looks the identifier up again and meets unreachable!() when it is not
\* found; the formatter inserts the length of ": ", 2.
inst_port_item_else(self, arg) ==
    IF self.target = "emitter"
    THEN IF ~Live(self) THEN self
         ELSE IF arg.identifier.symbol = None THEN panic(self, "unreachable")
         ELSE aligns_finish_item(
                  aligns_duplicated_token(
                      aligns_start_item(self, EXPRESSION), EXPRESSION,
                      identifier_with_prefix_suffix(
                          arg.identifier.identifier_token,
                          prefix_suffix(arg.identifier.symbol).prefix,
                          prefix_suffix(arg.identifier.symbol).suffix),
                      0),
                  EXPRESSION)
    ELSE aligns_finish_item(
             aligns_dummy_token(
                 aligns_start_item(insert(self, arg.identifier.identifier_token, 2),
                                   EXPRESSION),
                 EXPRESSION, arg.identifier.identifier_token),
             EXPRESSION)

inst_port_item(self, arg) ==
    IF arg.expression # None
    THEN inst_port_item_opt(identifier_item(self, arg), arg)
    ELSE inst_port_item_else(identifier_item(self, arg), arg)

\* InstParameterItem without expression, after the IDENTIFIER item: the
\* emitter duplicates the identifier token as it is written; the formatter
\* inserts the length of ": ", 2.
inst_parameter_item_else(self, arg) ==
    IF self.target = "emitter"
    THEN aligns_finish_item(
             aligns_duplicated_token(
                 aligns_start_item(self, EXPRESSION), EXPRESSION,
                 arg.identifier.identifier_token, 0),
             EXPRESSION)
    ELSE aligns_finish_item(
             aligns_dummy_token(
                 aligns_start_item(insert(self, arg.identifier.identifier_token, 2),
                                   EXPRESSION),
                 EXPRESSION, arg.identifier.identifier_token),
             EXPRESSION)

inst_parameter_item(self, arg) ==
    IF arg.expression # None
    THEN inst_port_item_opt(identifier_item(self, arg), arg)
    ELSE inst_parameter_item_else(identifier_item(self, arg), arg)

\* if let Some(ref x) = arg.function_declaration_opt1: the return type
function_declaration_opt1(self, arg) ==
    IF arg.scalar_type # None
    THEN reset_align(scalar_type(veryl_token(self, arg.minus_g_t),
                                 arg.scalar_type[1]))
    ELSE self

\* FunctionDeclaration without generic parameters and ports, with an empty
\* statement block.
function_declaration(self, arg) ==
    veryl_token(
     veryl_token(
      function_declaration_opt1(
       Aligner_identifier(
        veryl_token(self, arg.function),
        arg.identifier),
       arg),
      arg.l_brace),
     arg.r_brace)

\* for (x, y) in &align.additions: the entries of one kind's map come in the
\* iteration order of the HashMap, here one of two opposite orders.
LocationOrder(x) ==
    x.line * 1000 + x.column * 2
    + (IF "duplicated" \in DOMAIN x /\ x.duplicated # None THEN 1 ELSE 0)

RECURSIVE merge_additions(_, _, _, _)
merge_additions(public, additions, keys, reversed) ==
    IF keys = {} THEN public
    ELSE LET x == CHOOSE x \in keys : \A y \in keys :
                      IF reversed THEN LocationOrder(y) <= LocationOrder(x)
                      ELSE LocationOrder(x) <= LocationOrder(y)
         IN  merge_additions(entry_add(public, x, additions[x]), additions,
                             keys \ {x}, reversed)

\* for align in &self.aligns
RECURSIVE merge_aligns(_, _, _, _)
merge_aligns(public, aligns, kind, reversed) ==
    IF kind \notin DOMAIN aligns THEN public
    ELSE merge_aligns(merge_additions(public, aligns[kind].additions,
                                      DOMAIN aligns[kind].additions, reversed),
                      aligns, kind + 1, reversed)

\* align after self.veryl(input): finish_group, then the merge.
align_merge(self, reversed) ==
    [self EXCEPT !.additions = merge_aligns(@, self.aligns, 0, reversed)]

\* align that merges without closing the open groups.
align_open_groups(self, reversed) ==
    IF ~Live(self) THEN self
    ELSE align_merge(self, reversed)

align(self, reversed) ==
    IF ~Live(self) THEN self
    ELSE align_merge(Aligner_finish_group(self), reversed)

\* ------------------------------------------------------------- parse trees
\* One item of the tree on its source line.  Tokens are laid out as the
\* line is written, one space between words.
Number(line, column) == [factor |-> "Number", number |-> Token(line, column, 1)]

Identifier(line, column, length, symbol) ==
    [identifier_token |-> Token(line, column, length), symbol |-> symbol]

Variable == Some([prefix |-> 0, suffix |-> 0])

IdentifierLengths == {3, 4, 5}

\* `d   the clock domain annotation of a declaration, or none
ClockDomain(line, column, domain) ==
    IF domain
    THEN Some([back_quote |-> Token(line, column, 1),
               identifier |-> Identifier(line, column + 1, 1, None)])
    ELSE None

\* The columns an annotation and the space after it take.
DomainColumns(domain) == IF domain THEN 3 ELSE 0

\* let abc: logic = 1;   let abc: `d logic = 1;
\* as a declaration or as a statement
LetItem(prod, line, n, domain) ==
    [prod |-> prod, line |-> line,
     arg |-> [let |-> Token(line, 1, 3),
              identifier |-> Identifier(line, 5, n, Variable),
              colon |-> Token(line, 5 + n, 1),
              clock_domain |-> ClockDomain(line, 7 + n, domain),
              array_type |->
                  [scalar_type |->
                       [group |-> "VariableType",
                        variable_type |-> Token(line, 7 + n + DomainColumns(domain), 5),
                        width |-> None],
                   array |-> None],
              equ |-> Token(line, 13 + n + DomainColumns(domain), 1),
              expression |-> Number(line, 15 + n + DomainColumns(domain)),
              semicolon |-> Token(line, 16 + n + DomainColumns(domain), 1)]]

LetDeclaration(line, n) == LetItem("LetDeclaration", line, n, FALSE)

LetStatement(line, domain) == LetItem("LetStatement", line, 3, domain)

\* <8>   the width of a type
Width(line, column) ==
    Some([l_angle |-> Token(line, column, 1),
          expression |-> Number(line, column + 1),
          r_angle |-> Token(line, column + 2, 1)])

\* var a: logic<8> [2];   var a: T;   var a: T<8>;   var a: `d T;
\* with T in the symbol table ("found", "found_width") or not
VarItem(line, type, domain) ==
    [prod |-> "VarDeclaration", line |-> line,
     arg |-> [var |-> Token(line, 1, 3),
              identifier |-> Identifier(line, 5, 1, Variable),
              colon |-> Token(line, 6, 1),
              clock_domain |-> ClockDomain(line, 8, domain),
              array_type |->
                  IF type = "logic"
                  THEN [scalar_type |->
                            [group |-> "VariableType",
                             variable_type |-> Token(line, 8 + DomainColumns(domain), 5),
                             width |-> Width(line, 13 + DomainColumns(domain))],
                        array |-> Some([l_bracket |-> Token(line, 17 + DomainColumns(domain), 1),
                                        expression |-> Number(line, 18 + DomainColumns(domain)),
                                        r_bracket |-> Token(line, 19 + DomainColumns(domain), 1)])]
                  ELSE [scalar_type |->
                            [group |-> "UserDefinedType",
                             user_defined_type |->
                                 [identifier |-> Token(line, 8 + DomainColumns(domain), 1),
                                  symbol |-> IF type \in {"found", "found_width"}
                                             THEN Some([length |-> 3])
                                             ELSE None],
                             width |-> IF type \in {"found_width", "unknown_width"}
                                       THEN Width(line, 9 + DomainColumns(domain))
                                       ELSE None],
                        array |-> None],
              semicolon |-> Token(line, 20 + DomainColumns(domain), 1)]]

VarDeclaration(line, type) == VarItem(line, type, FALSE)

\* assign a = 1;
AssignDeclaration(line, symbol) ==
    [prod |-> "AssignDeclaration", line |-> line,
     arg |-> [assign |-> Token(line, 1, 6),
              hierarchical_identifier |-> [identifier |-> Identifier(line, 8, 1, symbol),
                                           symbol |-> symbol],
              equ |-> Token(line, 10, 1),
              expression |-> Number(line, 12),
              semicolon |-> Token(line, 13, 1)]]

\* case 1 { 0: 1, default: 2 }
CaseExpression(line, column) ==
    [factor |-> "CaseExpression",
     case_expression |->
         [case |-> Token(line, column, 4),
          expression |-> Number(line, column + 5),
          l_brace |-> Token(line, column + 7, 1),
          case_condition |-> [expression |-> Number(line, column + 9)],
          colon |-> Token(line, column + 10, 1),
          expression0 |-> Number(line, column + 12),
          comma |-> Token(line, column + 13, 1),
          defaul |-> Token(line, column + 15, 7),
          colon0 |-> Token(line, column + 22, 1),
          expression1 |-> Number(line, column + 24),
          r_brace |-> Token(line, column + 26, 1)]]

\* a,   a: 1,   a: case 1 { 0: 1, default: 2 },   inside inst u: m ( ... );
InstPortItem(line, form) ==
    [prod |-> "InstPortItem", line |-> line,
     arg |-> [identifier |-> Identifier(line, 5, 1,
                                 IF form = "unknown" THEN None ELSE Variable),
              colon |-> Token(line, 6, 1),
              expression |-> IF form = "number" THEN Some(Number(line, 8))
                             ELSE IF form = "case" THEN Some(CaseExpression(line, 8))
                             ELSE None]]

\* a,   a: 1,   inside inst u: m #( ... ) ( ... );
InstParameterItem(line, form) ==
    [prod |-> "InstParameterItem", line |-> line,
     arg |-> [identifier |-> Identifier(line, 5, 1, Variable),
              colon |-> Token(line, 6, 1),
              expression |-> IF form = "number" THEN Some(Number(line, 8)) ELSE None]]

\* a: input logic,   a: input `d logic,   a: interface,   a: `d interface
PortDeclarationItem(line, port_type, domain) ==
    [prod |-> "PortDeclarationItem", line |-> line,
     arg |-> [identifier |-> Identifier(line, 1, 1, Variable),
              colon |-> Token(line, 2, 1),
              group |->
                  IF port_type = "concrete"
                  THEN [port_type |-> "concrete",
                        direction |-> [kind |-> "input", token |-> Token(line, 4, 5)],
                        clock_domain |-> ClockDomain(line, 10, domain),
                        array_type |->
                            [scalar_type |->
                                 [group |-> "VariableType",
                                  variable_type |->
                                      Token(line, 10 + DomainColumns(domain), 5),
                                  width |-> None],
                             array |-> None]]
                  ELSE [port_type |-> "abstract",
                        clock_domain |-> ClockDomain(line, 4, domain),
                        interface |-> Token(line, 4 + DomainColumns(domain), 9)]]]

\* function f { }   function f -> logic { }
FunctionDeclaration(line, return) ==
    [prod |-> "FunctionDeclaration", line |-> line,
     arg |-> [function |-> Token(line, 1, 8),
              identifier |-> Identifier(line, 10, 1, Some([prefix |-> 0, suffix |-> 0])),
              minus_g_t |-> Token(line, 12, 2),
              scalar_type |-> IF return
                              THEN Some([group |-> "VariableType",
                                         variable_type |-> Token(line, 15, 5),
                                         width |-> None])
                              ELSE None,
              l_brace |-> Token(line, IF return THEN 21 ELSE 12, 1),
              r_brace |-> Token(line, IF return THEN 22 ELSE 13, 1)]]

Trees(line) ==
    {LetDeclaration(line, n) : n \in IdentifierLengths}
    \cup {VarDeclaration(line, t) : t \in {"logic", "found", "unknown"}}
    \cup {AssignDeclaration(line, s) : s \in {None, Variable}}
    \cup {InstPortItem(line, f) : f \in {"none", "unknown", "number", "case"}}
    \cup {FunctionDeclaration(line, r) : r \in BOOLEAN}

\* The declarations and items with clock domains, port types and inst
\* parameters.
DeclTrees(line) ==
    {LetStatement(line, d) : d \in BOOLEAN}
    \cup {LetItem("LetDeclaration", line, 3, TRUE)}
    \cup {VarItem(line, t, FALSE) : t \in {"found", "unknown", "unknown_width"}}
    \cup {VarItem(line, "found", TRUE)}
    \cup {PortDeclarationItem(line, t, d) : t \in {"concrete", "abstract"}, d \in BOOLEAN}
    \cup {InstPortItem(line, f) : f \in {"none", "number"}}
    \cup {InstParameterItem(line, f) : f \in {"none", "number"}}

\* The walker hands one item to its handler.
walk_item(self, item) ==
    IF item.prod = "LetDeclaration" THEN let_declaration(self, item.arg)
    ELSE IF item.prod = "LetStatement" THEN let_statement(self, item.arg)
    ELSE IF item.prod = "PortDeclarationItem" THEN port_declaration_item(self, item.arg)
    ELSE IF item.prod = "InstParameterItem" THEN inst_parameter_item(self, item.arg)
    ELSE IF item.prod = "VarDeclaration" THEN var_declaration(self, item.arg)
    ELSE IF item.prod = "AssignDeclaration" THEN assign_declaration(self, item.arg)
    ELSE IF item.prod = "InstPortItem" THEN inst_port_item(self, item.arg)
    ELSE function_declaration(self, item.arg)

\* ------------------------------------------------------------------ walker
\* The walker's stack holds the open productions that have child productions
\* of interest, each as {prod, n}: the production and the number of its
\* children already visited.  A production whose children are terminals only
\* is visited in one step: its Before callbacks, its terminals, its After
\* callbacks.  The argument of a callback is the path a declaration or
\* reference names or the id of an Msb/Lsb token.

Init ==
    /\ walk = <<>>
    /\ pass = "start"
    /\ last = [prod |-> "none", point |-> "Before", arg |-> 0]
    /\ next_token = 1
    /\ declared = {}
    /\ errors = <<>>
    /\ parent = <<>>
    /\ ctx = <<>>
    /\ file_scope_import = <<>>
    /\ owned = [n \in Syms |-> <<>>]
    /\ dag_nodes = {}
    /\ dag_edges = {}
    /\ msb_errors = <<>>
    /\ identifier_path = <<>>
    /\ select_dimension = <<>>
    /\ in_expression_identifier = FALSE
    /\ in_select = FALSE
    /\ msb_table = <<>>
    /\ aligner = Aligner_new("emitter")
    /\ input = <<>>
    /\ run = [n |-> 0, pos |-> 0, phase |-> "new", first |-> <<>>]

FileScope == {"ModuleDeclaration", "InterfaceDeclaration", "PackageDeclaration"}
NestedScope == {"StructUnionDeclaration", "EnumDeclaration", "ModportDeclaration"}

\* The productions the grammar allows as the next child of the open one.
\* A Select directly under a declaration is one of a HierarchicalIdentifier.
Children(top) ==
    CASE top.prod = "Veryl" -> FileScope \cup {"ScopedIdentifier"}
      [] top.prod \in FileScope ->
            {"StructUnionDeclaration", "EnumDeclaration", "LocalDeclaration",
             "TypeDefDeclaration", "ScopedIdentifier", "ExpressionIdentifier",
             "Select", "Msb", "Lsb"}
            \cup (IF top.prod = "InterfaceDeclaration" THEN {"ModportDeclaration"} ELSE {})
      [] top.prod \in NestedScope -> {"ScopedIdentifier", "ExpressionIdentifier"}
      [] top.prod = "ExpressionIdentifier" ->
            IF top.n = 0 THEN {"ScopedIdentifier"}
            ELSE IF top.n < MaxChildren THEN {"Select"} ELSE {}
      [] top.prod = "Select" -> {"ExpressionIdentifier", "Msb", "Lsb"}
      [] OTHER -> {}

\* Children are counted where the grammar bounds or orders them.
Counted == {"ExpressionIdentifier", "Select"}

Child(w) ==
    [w EXCEPT ![Len(w)].n = IF w[Len(w)].prod \in Counted /\ @ < MaxChildren
                            THEN @ + 1 ELSE @]

\* Before of a production with children.
Open(prod, arg) ==
    /\ pass = "walk"
    /\ Len(walk) < MaxDepth
    /\ prod \in Children(Last(walk))
    /\ walk' = Append(walk, [prod |-> prod, n |-> 0])
    /\ last' = [prod |-> prod, point |-> "Before", arg |-> arg]
    /\ pass' = pass
    /\ UNCHANGED align_vars

\* After of a production with children.
Close(prod) ==
    /\ pass = "walk"
    /\ Len(walk) > 1
    /\ Last(walk).prod = prod
    /\ walk' = Child(Pop(walk))
    /\ last' = [prod |-> prod, point |-> "After", arg |-> 0]
    /\ pass' = pass
    /\ UNCHANGED align_vars

\* Before and After of a production whose children are terminals.
Visit(prod, arg) ==
    /\ pass = "walk"
    /\ prod \in Children(Last(walk))
    /\ walk' = Child(walk)
    /\ last' = [prod |-> prod, point |-> "After", arg |-> arg]
    /\ UNCHANGED align_vars

\* A declaration names a symbol no earlier declaration named, or a path that
\* does not resolve.
Declarable(path) == path \in Paths /\ path \notin declared

Declare(path) == declared' = (declared \cup {path}) \ {0}

InExpression == walk # <<>> /\ Last(walk).prod = "ExpressionIdentifier"

\* The imports the pre-scan of Veryl could not resolve, one diagnostic each.
FailedImports ==
    Cardinality({i \in 1..Len(file_scope_import) : file_scope_import[i] = None})

\* Once the walk added MaxErrors diagnostics to those of the pre-scan, the
\* rest of the file holds no further declaration or type reference.
MoreErrors == Len(errors) - FailedImports < MaxErrors

SetDagBounded(self) == MoreErrors /\ SetDag(self)

VerylBefore(imports) ==
    /\ pass = "start"
    /\ pass' = "walk"
    /\ walk' = <<[prod |-> "Veryl", n |-> 0]>>
    /\ UNCHANGED align_vars
    /\ last' = [prod |-> "Veryl", point |-> "Before", arg |-> 0]
    /\ SetDag(veryl(CreateTypeDag, "Before", imports))
    /\ UNCHANGED <<next_token, declared, msb_vars>>

VerylAfter ==
    /\ pass = "walk"
    /\ Len(walk) = 1
    /\ walk' = <<>>
    /\ pass' = "done"
    /\ UNCHANGED align_vars
    /\ last' = [prod |-> "Veryl", point |-> "After", arg |-> 0]
    /\ SetDag(veryl(CreateTypeDag, "After", <<>>))
    /\ UNCHANGED <<next_token, declared, msb_vars>>

ModuleDeclarationBefore(path) ==
    /\ Declarable(path)
    /\ Open("ModuleDeclaration", path) /\ Declare(path)
    /\ SetDagBounded(module_declaration(CreateTypeDag, "Before", path))
    /\ UNCHANGED <<next_token, msb_vars>>

ModuleDeclarationAfter ==
    /\ Close("ModuleDeclaration")
    /\ SetDag(module_declaration(CreateTypeDag, "After", 0))
    /\ UNCHANGED <<next_token, declared, msb_vars>>

InterfaceDeclarationBefore(path) ==
    /\ Declarable(path)
    /\ Open("InterfaceDeclaration", path) /\ Declare(path)
    /\ SetDagBounded(interface_declaration(CreateTypeDag, "Before", path))
    /\ UNCHANGED <<next_token, msb_vars>>

InterfaceDeclarationAfter ==
    /\ Close("InterfaceDeclaration")
    /\ SetDag(interface_declaration(CreateTypeDag, "After", 0))
    /\ UNCHANGED <<next_token, declared, msb_vars>>

PackageDeclarationBefore(path) ==
    /\ Declarable(path)
    /\ Open("PackageDeclaration", path) /\ Declare(path)
    /\ SetDagBounded(package_declaration(CreateTypeDag, "Before", path))
    /\ UNCHANGED <<next_token, msb_vars>>

PackageDeclarationAfter ==
    /\ Close("PackageDeclaration")
    /\ SetDag(package_declaration(CreateTypeDag, "After", 0))
    /\ UNCHANGED <<next_token, declared, msb_vars>>

StructUnionDeclarationBefore(path, struct_union) ==
    /\ Declarable(path)
    /\ Open("StructUnionDeclaration", path) /\ Declare(path)
    /\ SetDagBounded(struct_union_declaration(CreateTypeDag, "Before", path, struct_union))
    /\ UNCHANGED <<next_token, msb_vars>>

StructUnionDeclarationAfter ==
    /\ Close("StructUnionDeclaration")
    /\ SetDag(struct_union_declaration(CreateTypeDag, "After", 0, "Struct"))
    /\ UNCHANGED <<next_token, declared, msb_vars>>

EnumDeclarationBefore(path) ==
    /\ Declarable(path)
    /\ Open("EnumDeclaration", path) /\ Declare(path)
    /\ SetDagBounded(enum_declaration(CreateTypeDag, "Before", path))
    /\ UNCHANGED <<next_token, msb_vars>>

EnumDeclarationAfter ==
    /\ Close("EnumDeclaration")
    /\ SetDag(enum_declaration(CreateTypeDag, "After", 0))
    /\ UNCHANGED <<next_token, declared, msb_vars>>

ModportDeclarationBefore(path) ==
    /\ Declarable(path)
    /\ Open("ModportDeclaration", path) /\ Declare(path)
    /\ SetDagBounded(modport_declaration(CreateTypeDag, "Before", path))
    /\ UNCHANGED <<next_token, msb_vars>>

ModportDeclarationAfter ==
    /\ Close("ModportDeclaration")
    /\ SetDag(modport_declaration(CreateTypeDag, "After", 0))
    /\ UNCHANGED <<next_token, declared, msb_vars>>

\* The type and the value of a local or type-def declaration are visited like
\* its following siblings: the declaration pushes neither parent nor ctx.
LocalDeclaration(path) ==
    /\ Declarable(path)
    /\ Visit("LocalDeclaration", path) /\ Declare(path)
    /\ pass' = pass
    /\ SetDagBounded(local_declaration(local_declaration(CreateTypeDag, "Before", path),
                                "After", path))
    /\ UNCHANGED <<next_token, msb_vars>>

TypeDefDeclaration(path) ==
    /\ Declarable(path)
    /\ Visit("TypeDefDeclaration", path) /\ Declare(path)
    /\ pass' = pass
    /\ SetDagBounded(type_def_declaration(type_def_declaration(CreateTypeDag, "Before", path),
                                   "After", path))
    /\ UNCHANGED <<next_token, msb_vars>>

\* The Identifier terminals of a ScopedIdentifier, each Before and After.
RECURSIVE identifiers(_, _)
identifiers(self, texts) ==
    IF texts = <<>> THEN self
    ELSE identifiers(identifier(identifier(self, "Before", Head(texts)),
                                "After", Head(texts)),
                     Tail(texts))

\* A ScopedIdentifier naming `path`, spelled with the identifiers `texts`.
ScopedIdentifier(path, texts) ==
    /\ MoreErrors \/ InExpression
    /\ Visit("ScopedIdentifier", path)
    /\ pass' = pass
    /\ SetDag(scoped_identifier(scoped_identifier(CreateTypeDag, "Before", path),
                                "After", path))
    /\ SetMsb(identifiers(CheckMsbLsb, texts))
    /\ UNCHANGED <<next_token, declared>>

\* Both handlers subscribe to ExpressionIdentifier.
ExpressionIdentifierBefore ==
    /\ Open("ExpressionIdentifier", 0)
    /\ SetDag(expression_identifier(CreateTypeDag, "Before"))
    /\ SetMsb(msb_expression_identifier(CheckMsbLsb, "Before"))
    /\ UNCHANGED <<next_token, declared>>

ExpressionIdentifierAfter ==
    /\ Close("ExpressionIdentifier")
    /\ Last(walk).n > 0
    /\ SetDag(expression_identifier(CreateTypeDag, "After"))
    /\ SetMsb(msb_expression_identifier(CheckMsbLsb, "After"))
    /\ UNCHANGED <<next_token, declared>>

SelectBefore ==
    /\ Open("Select", 0)
    /\ SetMsb(select(CheckMsbLsb, "Before"))
    /\ UNCHANGED <<next_token, declared, dag_vars>>

SelectAfter ==
    /\ Close("Select")
    /\ Last(walk).n > 0
    /\ SetMsb(select(CheckMsbLsb, "After"))
    /\ UNCHANGED <<next_token, declared, dag_vars>>

\* A trace_type that overflows the stack ends the process inside the Before
\* callback ("abort"); a usize subtraction below zero panics ("panic").
Msb ==
    /\ next_token <= MaxTokens
    /\ pass = "walk"
    /\ "Msb" \in Children(Last(walk))
    /\ walk' = Child(walk)
    /\ UNCHANGED align_vars
    /\ LET self == msb(CheckMsbLsb, "Before", next_token)
       IN  IF self.overflow \/ self.underflow
           THEN /\ pass' = IF self.overflow THEN "abort" ELSE "panic"
                /\ last' = [prod |-> "Msb", point |-> "Before", arg |-> next_token]
                /\ UNCHANGED msb_vars
           ELSE /\ pass' = pass
                /\ last' = [prod |-> "Msb", point |-> "After", arg |-> next_token]
                /\ SetMsb(msb(self, "After", next_token))
    /\ next_token' = next_token + 1
    /\ UNCHANGED <<declared, dag_vars>>

Lsb ==
    /\ next_token <= MaxTokens
    /\ Visit("Lsb", next_token)
    /\ pass' = pass
    /\ SetMsb(lsb(lsb(CheckMsbLsb, "Before", next_token), "After", next_token))
    /\ next_token' = next_token + 1
    /\ UNCHANGED <<declared, dag_vars>>

\* --------------------------------------------------------- Aligner actions
NextLines == IF input = <<>> THEN {1}
             ELSE {Last(input).line + gap : gap \in 1..MaxGap}

AlignerNew(target) ==
    /\ pass = "start"
    /\ run.n = 0
    /\ aligner' = Aligner_fresh(aligner, target)
    /\ run' = [n |-> 1, pos |-> 0, phase |-> "walk", first |-> <<>>]
    /\ input' = <<>>
    /\ UNCHANGED <<walk_vars, dag_vars, msb_vars>>

\* self.veryl(input), one item at a time: the first run chooses the tree.
AlignItem(item) ==
    /\ run.n = 1 /\ run.phase = "walk"
    /\ Live(aligner)
    /\ Len(input) < MaxLines
    /\ item.line \in NextLines
    /\ aligner' = walk_item(aligner, item)
    /\ input' = Append(input, item)
    /\ run' = [run EXCEPT !.pos = @ + 1]
    /\ UNCHANGED <<walk_vars, dag_vars, msb_vars>>

\* The second run walks the same tree.
AlignItemAgain ==
    /\ run.n = 2 /\ run.phase = "walk"
    /\ Live(aligner)
    /\ run.pos < Len(input)
    /\ aligner' = walk_item(aligner, input[run.pos + 1])
    /\ run' = [run EXCEPT !.pos = @ + 1]
    /\ UNCHANGED <<input, walk_vars, dag_vars, msb_vars>>

AlignFinish(reversed) ==
    /\ run.phase = "walk"
    /\ Live(aligner)
    /\ run.n = 1 \/ (run.n = 2 /\ run.pos = Len(input))
    /\ aligner' = align(aligner, reversed)
    /\ run' = [run EXCEPT !.phase = "done"]
    /\ UNCHANGED <<input, walk_vars, dag_vars, msb_vars>>

AlignAgain ==
    /\ run.n = 1 /\ run.phase = "done"
    /\ aligner' = Aligner_fresh(aligner, aligner.target)
    /\ run' = [n |-> 2, pos |-> 0, phase |-> "walk", first |-> aligner.additions]
    /\ UNCHANGED <<input, walk_vars, dag_vars, msb_vars>>

\* ---------------------------------------------------------- specifications
\* SpecDag: files of declarations, type references and imports; expressions
\* are visited as ExpressionIdentifiers without Selects.
NextDag ==
    \/ \E imports \in SeqsUpTo(Paths, MaxImports) : VerylBefore(imports)
    \/ VerylAfter
    \/ \E path \in Paths : ModuleDeclarationBefore(path)
    \/ ModuleDeclarationAfter
    \/ \E path \in Paths : InterfaceDeclarationBefore(path)
    \/ InterfaceDeclarationAfter
    \/ \E path \in Paths : PackageDeclarationBefore(path)
    \/ PackageDeclarationAfter
    \/ \E path \in Paths : \E su \in {"Struct", "Union"} :
            StructUnionDeclarationBefore(path, su)
    \/ StructUnionDeclarationAfter
    \/ \E path \in Paths : EnumDeclarationBefore(path)
    \/ EnumDeclarationAfter
    \/ \E path \in Paths : ModportDeclarationBefore(path)
    \/ ModportDeclarationAfter
    \/ \E path \in Paths : LocalDeclaration(path)
    \/ \E path \in Paths : TypeDefDeclaration(path)
    \/ \E path \in Paths : ScopedIdentifier(path, <<path>>)
    \/ ExpressionIdentifierBefore
    \/ ExpressionIdentifierAfter

SpecDag == Init /\ [][NextDag]_vars

\* SpecImport: files of imports, modules, interfaces and packages.
NextImport ==
    \/ \E imports \in SeqsUpTo(Paths, MaxImports + 1) : VerylBefore(imports)
    \/ VerylAfter
    \/ \E path \in Paths : ModuleDeclarationBefore(path)
    \/ ModuleDeclarationAfter
    \/ \E path \in Paths : InterfaceDeclarationBefore(path)
    \/ InterfaceDeclarationAfter
    \/ \E path \in Paths : PackageDeclarationBefore(path)
    \/ PackageDeclarationAfter

SpecImport == Init /\ [][NextImport]_vars

\* SpecMsb: a file without imports whose one module holds expressions.

NextMsb ==
    \/ VerylBefore(<<>>)
    \/ VerylAfter
    \/ ModuleDeclarationBefore(1)
    \/ ModuleDeclarationAfter
    \/ \E texts \in SeqsUpTo(Texts, MaxPath) :
            InExpression /\ texts # <<>> /\ ScopedIdentifier(0, texts)
    \/ ExpressionIdentifierBefore
    \/ ExpressionIdentifierAfter
    \/ SelectBefore
    \/ SelectAfter
    \/ Msb
    \/ Lsb

SpecMsb == Init /\ [][NextMsb]_vars

\* Spec: a file without imports whose one module holds a struct, type
\* references and expressions; both handlers see every production.
Next ==
    \/ VerylBefore(<<>>)
    \/ VerylAfter
    \/ \E path \in {0, 1} : ModuleDeclarationBefore(path)
    \/ ModuleDeclarationAfter
    \/ \E path \in {0, 2} : StructUnionDeclarationBefore(path, "Struct")
    \/ StructUnionDeclarationAfter
    \/ \E path \in {0, 2} : \E text \in {1, 5} : ScopedIdentifier(path, <<text>>)
    \/ ExpressionIdentifierBefore
    \/ ExpressionIdentifierAfter
    \/ SelectBefore
    \/ SelectAfter
    \/ Msb
    \/ Lsb

Spec == Init /\ [][Next]_vars

\* The aligner alone: two runs of align over one tree.
NextAlign ==
    \/ \E target \in Targets : AlignerNew(target)
    \/ \E line \in NextLines : \E item \in Trees(line) : AlignItem(item)
    \/ \E reversed \in BOOLEAN : AlignFinish(reversed)
    \/ AlignAgain
    \/ AlignItemAgain

SpecAlign == Init /\ [][NextAlign]_vars

\* The aligner over declarations, port declaration items and inst items.
NextAlignDecl ==
    \/ \E target \in Targets : AlignerNew(target)
    \/ \E line \in NextLines : \E item \in DeclTrees(line) : AlignItem(item)
    \/ \E reversed \in BOOLEAN : AlignFinish(reversed)
    \/ AlignAgain
    \/ AlignItemAgain

SpecAlignDecl == Init /\ [][NextAlignDecl]_vars

\* ------------------------------------------------------------------ claims
\* The diagnostics a step appended.
NewErrors(old, new) == SubSeq(new, Len(old) + 1, Len(new))

IsPrefix(old, new) == Len(old) <= Len(new) /\ SubSeq(new, 1, Len(old)) = old

Kinds(seq) == {seq[i].kind : i \in 1..Len(seq)}

\* The edges of the DAG between two nodes, in either direction.
Between(edges, a, b) == {e \in edges : {e[1], e[2]} = {a, b}}

\* The step visits an Msb (an Lsb) token; its id is next_token.
MsbStep == last'.prod = "Msb" /\ next_token' = next_token + 1
LsbStep == last'.prod = "Lsb" /\ next_token' = next_token + 1

\* The walk is inside the bracketed Select of an ExpressionIdentifier.
LexInSelect(w) ==
    \E i \in 1..(Len(w) - 1) :
        w[i].prod = "ExpressionIdentifier" /\ w[i + 1].prod = "Select"

\* C1: the type DAG never holds a directed cycle or a self-loop.
C1_Acyclic == \A n \in Syms : ~Reaches(dag_edges, n, n)

\* A cyclic edge was refused while the DAG holds edges.
C1_Witness ==
    /\ "cyclic_type_dependency" \in Kinds(errors)
    /\ Cardinality(dag_edges) >= 2

\* The reference a ScopedIdentifier step requests: from the parent on top of
\* the stack to the node of `path`.
RequestsEdge(path) ==
    /\ ctx # <<>> /\ Last(ctx) # "ExpressionIdentifier"
    /\ path \in Syms
    /\ parent # <<>>
    /\ ~(\E i \in 1..Len(owned[Last(parent)]) : owned[Last(parent)][i] = path)

\* C2: an edge insertion that would close a cycle adds no edge, leaves the
\* edge set unchanged and appends exactly one cyclic_type_dependency naming
\* the DAG edge's source as start and its target (and its token) as end; the
\* callback returns and the walk goes on.
C2_CyclicEdgeRefused ==
    [][ /\ \A i \in (Len(errors) + 1)..Len(errors') :
              errors'[i].kind = "cyclic_type_dependency" =>
                  /\ Between(dag_edges', errors'[i].start, errors'[i].end) \subseteq dag_edges
                  /\ ~(\E e \in dag_edges' : e[1] = errors'[i].start /\ e[2] = errors'[i].end)
                  /\ pass' = "walk"
        /\ (last'.prod = "ScopedIdentifier" /\ pass = "walk" /\ RequestsEdge(last'.arg)
            /\ (last'.arg = Last(parent) \/ Reaches(dag_edges, Last(parent), last'.arg)))
           => /\ dag_edges' = dag_edges
              /\ errors' = Append(errors, [kind |-> "cyclic_type_dependency",
                                           start |-> last'.arg, end |-> Last(parent),
                                           token |-> Last(parent)])
              /\ pass' = "walk"
      ]_vars

\* struct A { b: B } and struct B { a: A } (A = 1, B = 2): the reference to A
\* inside B was refused with start A, end B and the token of B.
C2_Witness ==
    /\ errors = <<[kind |-> "cyclic_type_dependency", start |-> 1, end |-> 2, token |-> 2]>>
    /\ last = [prod |-> "ScopedIdentifier", point |-> "After", arg |-> 1]
    /\ Last(walk).prod = "StructUnionDeclaration"
    /\ parent # <<>> /\ Last(parent) = 2
    /\ <<2, 1, "Struct">> \in dag_edges
    /\ Between(dag_edges, 1, 2) = {<<2, 1, "Struct">>}

\* The step declares a new symbol under the parent on top of the stack.
DeclaredUnderParent == declared' # declared /\ parent # <<>>
DeclaredNode == CHOOSE c \in declared' : c \notin declared

\* C3 as claimed: after insert_owned(p, c) and insert_edge(c, p, ctx) exactly
\* one edge connects p and c.
C3_ExactlyOneEdge ==
    [][ DeclaredUnderParent =>
            Cardinality(Between(dag_edges', Last(parent), DeclaredNode)) = 1 ]_vars

\* C3 amended: the declaration of c under p leaves no earlier reference edge
\* (DAG edge c -> p) and records c as owned; the ownership edge (DAG edge
\* p -> c, tagged top of ctx) is then the only edge between p and c, unless c
\* still reaches p through other nodes: then it is refused with one
\* cyclic_type_dependency and no edge connects p and c.
C3_OwnershipEdgeWins ==
    [][ DeclaredUnderParent =>
            LET p == Last(parent)
                c == DeclaredNode
            IN  /\ ~(\E e \in dag_edges' : e[1] = c /\ e[2] = p)
                /\ \E i \in 1..Len(owned'[p]) : owned'[p][i] = c
                /\ dag_edges' \ Between(dag_edges', p, c) = dag_edges \ Between(dag_edges, p, c)
                /\ IF Reaches(dag_edges', c, p)
                   THEN /\ Between(dag_edges', p, c) = {}
                        /\ errors' = Append(errors, [kind |-> "cyclic_type_dependency",
                                                     start |-> p, end |-> c, token |-> c])
                   ELSE /\ Between(dag_edges', p, c) = {<<p, c, Last(ctx)>>}
                        /\ errors' = errors ]_vars

\* A type-def c was declared under p after p had referenced q and q's owner
\* (or q itself) had been declared: c is owned by p and the ownership edge is
\* the one edge between them.
C3_Witness ==
    /\ last.prod = "TypeDefDeclaration"
    /\ last.arg \in Syms
    /\ parent # <<>>
    /\ Last(parent) # last.arg
    /\ \E i \in 1..Len(owned[Last(parent)]) : owned[Last(parent)][i] = last.arg
    /\ Between(dag_edges, Last(parent), last.arg) = {<<Last(parent), last.arg, Last(ctx)>>}
    /\ \E e \in dag_edges : e[1] = last.arg /\ e[2] # Last(parent)

\* C4: an Msb visited outside every Select of an ExpressionIdentifier gets
\* exactly one invalid_msb, no MSB-table entry and no unknown_msb.
C4_InvalidMsbOutsideSelect ==
    [][ (MsbStep /\ ~LexInSelect(walk)) =>
            /\ msb_errors' = Append(msb_errors, [kind |-> "invalid_msb", token |-> next_token])
            /\ msb_table' = msb_table
            /\ pass' = "walk" ]_vars

\* An Msb inside the Select of a HierarchicalIdentifier was reported.
C4_Witness ==
    /\ last.prod = "Msb"
    /\ walk # <<>> /\ Last(walk).prod = "Select"
    /\ ~LexInSelect(walk)
    /\ msb_errors # <<>>
    /\ Last(msb_errors) = [kind |-> "invalid_msb", token |-> last.arg]
    /\ last.arg \notin DOMAIN msb_table

\* C5 as claimed: an msb or lsb inside the Select of an ExpressionIdentifier
\* gets neither invalid_msb nor invalid_lsb.
C5_NoInvalidInsideSelect ==
    [][ ((MsbStep \/ LsbStep) /\ LexInSelect(walk)) =>
            Kinds(NewErrors(msb_errors, msb_errors')) \cap {"invalid_msb", "invalid_lsb"} = {}
      ]_vars

\* C6 as claimed: a visit of an Msb ends in exactly one of: an MSB-table
\* entry for its token, one unknown_msb, one invalid_msb.
MsbInserted ==
    /\ next_token \in DOMAIN msb_table' /\ next_token \notin DOMAIN msb_table
    /\ msb_errors' = msb_errors
MsbReported(kind) ==
    /\ msb_errors' = Append(msb_errors, [kind |-> kind, token |-> next_token])
    /\ msb_table' = msb_table

C6_OneOutcome ==
    [][ MsbStep =>
            \/ MsbInserted /\ ~MsbReported("unknown_msb") /\ ~MsbReported("invalid_msb")
            \/ ~MsbInserted /\ MsbReported("unknown_msb")
            \/ ~MsbInserted /\ MsbReported("invalid_msb") ]_vars

\* The chain of types behind a type: the type itself, then the chain of the
\* type a TypeDef it names stands for, each TypeDef followed once.
RECURSIVE ClaimChain(_, _)
ClaimChain(type, seen) ==
    IF /\ type.kind = "UserDefined"
       /\ type.path \in DOMAIN SymbolTable
       /\ type.path \notin seen
       /\ SymbolTable[type.path].kind = "TypeDef"
    THEN <<type>> \o ClaimChain(SymbolTable[type.path].type[1], seen \cup {type.path})
    ELSE <<type>>

RECURSIVE ClaimDims(_)
ClaimDims(types) ==
    IF types = <<>> THEN <<>>
    ELSE Head(types).array \o Head(types).width \o ClaimDims(Tail(types))

\* The declared type of the symbol the path on top of identifier_path names,
\* when that is a Variable or a typed Port.
TopPath == Last(identifier_path)
TopTyped ==
    /\ Len(TopPath) = 1
    /\ TopPath[1] \in DOMAIN SymbolTable
    /\ SymbolTable[TopPath[1]].kind \in {"Variable", "Port"}
    /\ SymbolTable[TopPath[1]].type # None

\* C7: for an Msb visited with both flags set on a Variable or typed Port,
\* the expression inserted is element k of array ++ width of the traced
\* types in order, k the top of select_dimension; no subtraction underflows.
C7_SelectedDimension ==
    [][ (MsbStep /\ in_expression_identifier /\ in_select /\ TopTyped) =>
            LET dims == ClaimDims(ClaimChain(SymbolTable[TopPath[1]].type[1], {}))
                k == Last(select_dimension)
            IN  /\ pass' # "panic"
                /\ pass' = "walk" =>
                      IF k < Len(dims)
                      THEN /\ msb_table' = msb_table_insert(msb_table, next_token, dims[k + 1])
                           /\ msb_errors' = msb_errors
                      ELSE /\ msb_table' = msb_table
                           /\ msb_errors' = Append(msb_errors,
                                  [kind |-> "unknown_msb", token |-> next_token]) ]_vars

\* b[..][msb] with b: T[2], type T = U<16>: the second dimension is the width
\* of the TypeDef behind b's type.
C7_Witness ==
    /\ last.prod = "Msb"
    /\ last.arg \in DOMAIN msb_table
    /\ msb_table[last.arg] = "T.width0"

\* C8 as claimed: an Msb inside a Select of an ExpressionIdentifier of which
\* k Selects are complete is resolved with dimension index k.
C8_IndexIsCompletedSelects ==
    [][ (MsbStep /\ Len(walk) >= 2 /\ Last(walk).prod = "Select"
         /\ walk[Len(walk) - 1].prod = "ExpressionIdentifier") =>
            /\ in_expression_identifier /\ in_select
            /\ select_dimension # <<>>
            /\ Last(select_dimension) = walk[Len(walk) - 1].n - 1 ]_vars

\* C9: after a whole file all four stacks are empty and both flags false.
C9_EmptyAtEnd ==
    pass = "done" =>
        /\ identifier_path = <<>> /\ select_dimension = <<>>
        /\ parent = <<>> /\ ctx = <<>>
        /\ ~in_expression_identifier /\ ~in_select

\* A file with a struct in a module, an unresolved reference and a resolved
\* msb was walked to its end.
C9_Witness ==
    /\ pass = "done"
    /\ errors # <<>>
    /\ dag_edges # {}
    /\ DOMAIN msb_table # {}

\* C10 as claimed: every callback returns, and its handler's errors only grow.
C10_AlwaysReturns ==
    [][ /\ pass' \in {"walk", "done"}
        /\ IsPrefix(errors, errors')
        /\ IsPrefix(msb_errors, msb_errors') ]_vars

\* CreateTypeDag and the DAG but for ctx.
DagButCtx == <<errors, parent, file_scope_import, owned, dag_nodes, dag_edges>>

\* C19: a ScopedIdentifier visited while ctx is empty or its top is
\* ExpressionIdentifier inserts no node, adds no edge and appends no
\* diagnostic; the ExpressionIdentifier callbacks only push and pop ctx.
C19_ExpressionReferencesLeaveDag ==
    [][ /\ (last'.prod = "ScopedIdentifier"
            /\ (ctx = <<>> \/ Last(ctx) = "ExpressionIdentifier"))
           => UNCHANGED dag_vars
        /\ (last'.prod = "ExpressionIdentifier" /\ Len(walk') > Len(walk))
           => ctx' = Append(ctx, "ExpressionIdentifier") /\ UNCHANGED DagButCtx
        /\ (last'.prod = "ExpressionIdentifier" /\ Len(walk') < Len(walk))
           => ctx' = Pop(ctx) /\ UNCHANGED DagButCtx
      ]_vars

\* Inside a declaration that owns a node, an expression named a symbol the
\* DAG does not hold: the DAG still does not hold it.
C19_Witness ==
    /\ last.prod = "ScopedIdentifier"
    /\ last.arg \in Syms
    /\ last.arg \notin dag_nodes
    /\ walk # <<>> /\ Last(walk).prod = "ExpressionIdentifier"
    /\ ctx # <<>> /\ Last(ctx) = "ExpressionIdentifier"
    /\ parent # <<>>
    /\ dag_edges # {}

ScopeOpening == FileScope \cup NestedScope

\* C20 as claimed, for a declaration without children: its After callback
\* follows its Before callback, whose insert_node succeeded exactly when the
\* path resolves; the After callback restores the stacks the Before callback
\* found (parent without the node pushed, if one was pushed; ctx without the
\* context pushed).
C20_StacksRestored ==
    [][ (/\ last.prod \in ScopeOpening /\ last.point = "Before"
         /\ last'.prod = last.prod /\ last'.point = "After"
         /\ Len(walk') < Len(walk))
        => /\ ctx' = Pop(ctx)
           /\ parent' = IF last.arg \in Syms THEN Pop(parent) ELSE parent ]_vars

\* ----------------------------------------------------------------- Aligner
\* The groups finish_group closed so far, over all kinds of the engine.
FinishedGroups == UNION {{<<kind, i>> : i \in 1..Len(aligner.aligns[kind].groups)} :
                         kind \in DOMAIN aligner.aligns}

Group(g) == aligner.aligns[g[1]].groups[g[2]]

SameLocationTwice(rest) ==
    \E i, j \in 1..Len(rest) : i # j /\ rest[i][1] = rest[j][1]

\* C11 as claimed: after finish_group every (loc, w) of the closed group has
\* additions[loc] + w = max_width of the group, also when two entries of the
\* group carry the same location.
C11_PaddingReachesMaxWidth ==
    \A g \in FinishedGroups : \A i \in 1..Len(Group(g).rest) :
        LET loc == Group(g).rest[i][1]
            w == Group(g).rest[i][2]
        IN  Group(g).additions[loc] + w = Group(g).max_width

AlignDone == run.phase = "done" /\ Live(aligner)

KindLocations == UNION {DOMAIN aligner.aligns[kind].additions : kind \in DOMAIN aligner.aligns}

RECURSIVE KindsSum(_, _)
KindsSum(loc, kind) ==
    IF kind \notin DOMAIN aligner.aligns THEN 0
    ELSE (IF loc \in DOMAIN aligner.aligns[kind].additions
          THEN aligner.aligns[kind].additions[loc] ELSE 0) + KindsSum(loc, kind + 1)

\* The inst port items without expression whose identifier token is at loc:
\* the formatter calls insert(identifier_token, ": ".len()) for each.
Inserted(loc) ==
    {i \in 1..Len(input) :
        /\ input[i].prod = "InstPortItem"
        /\ input[i].arg.expression = None
        /\ Location(aligner.target, input[i].arg.identifier.identifier_token) = loc}

\* C12 as claimed: after align the public map is the sum over the kinds of
\* the kinds' additions, nothing else contributes, and a location in no
\* kind's map is not in the public map.
C12_MergedIsSumOfKinds ==
    AlignDone =>
        /\ DOMAIN aligner.additions = KindLocations
        /\ \A loc \in KindLocations : aligner.additions[loc] = KindsSum(loc, 0)

\* C12 amended: in the formatter every inst port item without expression
\* adds 2 (the length of ": ") at the location of its identifier, on top of
\* the sum over the kinds; in the emitter the public map is the sum alone.
C12_MergedIsSumAndInserted ==
    AlignDone =>
        /\ DOMAIN aligner.additions = KindLocations
        /\ \A loc \in KindLocations :
               aligner.additions[loc] =
                   KindsSum(loc, 0)
                   + (IF aligner.target = "formatter"
                      THEN 2 * Cardinality(Inserted(loc)) ELSE 0)

C12_Witness ==
    /\ AlignDone
    /\ aligner.target = "formatter"
    /\ \E loc \in KindLocations :
           /\ Inserted(loc) # {}
           /\ \E k1, k2 \in DOMAIN aligner.aligns :
                  /\ k1 # k2
                  /\ loc \in DOMAIN aligner.aligns[k1].additions
                  /\ loc \in DOMAIN aligner.aligns[k2].additions
                  /\ aligner.aligns[k1].additions[loc] > 0

\* C13 as claimed: in both engines start_item is never called while enable
\* is true and finish_item never while enable is false, and the emitter's
\* assertions never fire, also for a case expression inside an expression
\* measured as an EXPRESSION item.
C13_StartFinishAlternate ==
    /\ \A kind \in DOMAIN aligner.aligns : ~aligner.aligns[kind].overlap
    /\ aligner.panicked # "assert"

\* The items a kind recorded, group by group: the rests of the groups closed
\* so far, then the rest of the open group.
Rests(kind) ==
    [i \in 1..Len(aligner.aligns[kind].groups) |-> aligner.aligns[kind].groups[i].rest]
    \o <<aligner.aligns[kind].rest>>

RECURSIVE MaxWidth(_)
MaxWidth(rest) == IF rest = <<>> THEN 0 ELSE Max(Head(rest)[2], MaxWidth(Tail(rest)))

\* C14: two consecutive items of a kind whose lines differ by 2 or more are
\* never in one group; the max_width of every group is the largest width of
\* its own items; the padding a closed group left at a location is that
\* group's max_width minus the width of its last item at the location.
C14_BlankLineClosesGroup ==
    \A kind \in DOMAIN aligner.aligns :
        /\ \A g \in 1..Len(Rests(kind)) : \A i \in 1..(Len(Rests(kind)[g]) - 1) :
               Rests(kind)[g][i + 1][1].line - Rests(kind)[g][i][1].line < 2
        /\ aligner.aligns[kind].max_width = MaxWidth(aligner.aligns[kind].rest)
        /\ \A g \in 1..Len(aligner.aligns[kind].groups) :
               LET group == aligner.aligns[kind].groups[g]
               IN  /\ group.max_width = MaxWidth(group.rest)
                   /\ \A i \in 1..Len(group.rest) :
                          (\A j \in (i + 1)..Len(group.rest) :
                               group.rest[j][1] # group.rest[i][1])
                          => group.additions[group.rest[i][1]]
                                 = group.max_width - group.rest[i][2]

\* A blank line closed a group of wide items; the open group after it holds
\* a narrower item.
C14_Witness ==
    \E kind \in DOMAIN aligner.aligns :
        LET groups == aligner.aligns[kind].groups
            rest == aligner.aligns[kind].rest
        IN  /\ groups # <<>> /\ rest # <<>>
            /\ Len(Last(groups).rest) > 1
            /\ rest[1][1].line - Last(Last(groups).rest)[1].line >= 2
            /\ aligner.aligns[kind].max_width < Last(groups).max_width
            /\ \E i \in 1..Len(Last(groups).rest) :
                   Last(groups).additions[Last(groups).rest[i][1]] > 0

\* Two consecutive items of a kind that a group boundary separates: the last
\* item of a closed group and the first item recorded after it.
Boundaries(kind) ==
    {g \in 1..(Len(Rests(kind)) - 1) : Rests(kind)[g + 1] # <<>>}

BeforeBoundary(kind, g) == Last(Rests(kind)[g])[1].line
AfterBoundary(kind, g) == Rests(kind)[g + 1][1][1].line

InputLines == {input[i].line : i \in 1..Len(input)}

\* Lines of function declarations with a return type: the handler calls
\* reset_align after the type.
ResetLines ==
    {input[i].line : i \in {j \in 1..Len(input) :
                               /\ input[j].prod = "FunctionDeclaration"
                               /\ input[j].arg.scalar_type # None}}

ConsecutiveLets ==
    /\ input # <<>>
    /\ \A i \in 1..Len(input) : input[i].prod = "LetDeclaration" /\ input[i].line = i

IdentifierLength(i) == input[i].arg.identifier.identifier_token.length

\* The location that anchors the gap before the colon: the identifier's.
BeforeColon(i) == Location(aligner.target, input[i].arg.identifier.identifier_token)

RECURSIVE MaxLength(_)
MaxLength(i) == IF i = 0 THEN 0 ELSE Max(IdentifierLength(i), MaxLength(i - 1))

\* C16: for let declarations on consecutive lines the merged map assigns
\* max(n) - ni at the location before the colon of the i-th declaration.
C16_LetColonsAlign ==
    (AlignDone /\ ConsecutiveLets) =>
        \A i \in 1..Len(input) :
            /\ BeforeColon(i) \in DOMAIN aligner.additions
            /\ aligner.additions[BeforeColon(i)] = MaxLength(Len(input)) - IdentifierLength(i)

\* Lengths 3, 5, 4 give 2, 0, 1.
C16_Witness ==
    /\ AlignDone /\ ConsecutiveLets
    /\ Len(input) = 3
    /\ <<IdentifierLength(1), IdentifierLength(2), IdentifierLength(3)>> = <<3, 5, 4>>
    /\ <<aligner.additions[BeforeColon(1)], aligner.additions[BeforeColon(2)],
          aligner.additions[BeforeColon(3)]>> = <<2, 0, 1>>

C18_NeverPanics == aligner.panicked = "none"

\* ----------------------------------------------------- CreateTypeDag, part 2
\* C21: at every point of the walk no node c of owned(p) has a reference
\* edge for p referencing c (DAG edge c -> p), and a ScopedIdentifier under
\* parent p that names a node of owned(p) requests no edge: the DAG and the
\* handler stay as they are, no diagnostic is appended.
C21_OwnedNotReferenced ==
    [][ /\ \A p \in Syms : \A i \in 1..Len(owned'[p]) :
              ~type_dag_exist_edge(dag_edges', owned'[p][i], p)
        /\ (/\ last'.prod = "ScopedIdentifier" /\ pass = "walk"
            /\ parent # <<>> /\ last'.arg \in Syms
            /\ is_owned(CreateTypeDag, Last(parent), last'.arg))
           => UNCHANGED dag_vars ]_vars

\* A type reference under p named a node p owns: the ownership edge is the
\* only edge between the two.
C21_Witness ==
    /\ last.prod = "ScopedIdentifier" /\ last.arg \in Syms
    /\ ctx # <<>> /\ Last(ctx) # "ExpressionIdentifier"
    /\ parent # <<>>
    /\ is_owned(CreateTypeDag, Last(parent), last.arg)
    /\ Between(dag_edges, Last(parent), last.arg) = {<<Last(parent), last.arg, Last(ctx)>>}

\* The edges a step stored.
NewEdges == dag_edges' \ dag_edges

\* The file-scope imports whose insert_node succeeded.
Imported(imports) == {imports[i][1] : i \in {j \in 1..Len(imports) : imports[j] # None}}

\* C22 as claimed: every edge stored points from the node the enclosing
\* declaration references, imports or owns (the dependee) to the enclosing
\* declaration, the parent on the stack (the dependent).
C22_EdgesDependeeToDependent ==
    [][ \A e \in NewEdges :
            IF last'.prod \in FileScope
            THEN /\ parent' # <<>> /\ e[2] = Last(parent')
                 /\ e[1] \in Imported(file_scope_import)
            ELSE /\ parent # <<>> /\ e[2] = Last(parent)
                 /\ e[1] = last'.arg ]_vars

\* C22 amended: a reference edge points from the node referenced to the
\* parent on the stack and a file-scope-import edge from the node imported to
\* the module, interface or package just opened; an ownership edge points
\* the other way, from the parent on the stack to the node declared under it,
\* which is recorded in owned(parent).  Every edge is tagged with top(ctx).
C22_OwnershipEdgeFromOwner ==
    [][ \A e \in NewEdges :
            CASE last'.prod = "ScopedIdentifier" ->
                    /\ parent # <<>>
                    /\ e = <<last'.arg, Last(parent), Last(ctx)>>
              [] last'.prod \in FileScope ->
                    /\ parent' # <<>> /\ Last(parent') = last'.arg
                    /\ e[1] \in Imported(file_scope_import)
                    /\ e = <<e[1], last'.arg, Last(ctx')>>
              [] OTHER ->
                    /\ parent # <<>>
                    /\ e = <<Last(parent), last'.arg, Last(ctx)>>
                    /\ is_owned([owned |-> owned'], Last(parent), last'.arg) ]_vars

\* import 1; module 2 { struct 3 { a: 1 } }: the DAG holds the import edge
\* 1 -> 2, the ownership edge 2 -> 3 and the reference edge 1 -> 3.
C22_Witness ==
    /\ last.prod = "ScopedIdentifier"
    /\ Len(parent) = 2
    /\ \E i \in Imported(file_scope_import) :
            /\ <<i, parent[1], ctx[1]>> \in dag_edges
            /\ <<i, parent[2], ctx[2]>> \in dag_edges
    /\ <<parent[1], parent[2], ctx[1]>> \in dag_edges
    /\ is_owned(CreateTypeDag, parent[1], parent[2])
    /\ Cardinality(dag_edges) = 3

\* The edges a module depends through: tagged Module and not the ownership
\* edge of a node the module owns.  e[2] is the module, e[1] the node it
\* references directly or imports.
ModuleEdges(self) ==
    {e \in self.edges : e[3] = "Module" /\ ~is_owned(self, e[1], e[2])}

DependsOn(m, n) ==
    IF <<n, m, "Module">> \in dag_edges'
    THEN Reaches(dag_edges', n, m) /\ ~Reaches(dag_edges', m, n)
    ELSE /\ ~type_dag_exist_edge(dag_edges', n, m)
         /\ \E i \in (Len(errors) + 1)..Len(errors') :
                errors'[i] = to_analyzer_error_cyclic(n, m)

OwnContext(prod) ==
    CASE prod = "ModuleDeclaration" -> "Module"
      [] prod = "InterfaceDeclaration" -> "Interface"
      [] prod = "PackageDeclaration" -> "Package"

\* The diagnostics of the imports that do not resolve, in source order.
RECURSIVE ClaimUnresolved(_)
ClaimUnresolved(imports) ==
    IF imports = <<>> THEN <<>>
    ELSE (IF Head(imports) \in Syms THEN <<>>
          ELSE <<to_analyzer_error_unresolved(Head(imports))>>)
         \o ClaimUnresolved(Tail(imports))

\* One edge requested per entry that is not None, in the order of the
\* entries: stored as n -> m, or refused with one cyclic_type_dependency.
RECURSIVE ClaimImportEdges(_, _, _, _)
ClaimImportEdges(dag, entries, m, tag) ==
    IF entries = <<>> THEN dag
    ELSE LET n == Head(entries)
         IN  ClaimImportEdges(
                 IF n = None THEN dag
                 ELSE IF n[1] = m \/ Reaches(dag.edges, m, n[1])
                 THEN [dag EXCEPT !.errors = Append(@, to_analyzer_error_cyclic(n[1], m))]
                 ELSE [dag EXCEPT !.edges = @ \cup {<<n[1], m, tag>>}],
                 Tail(entries), m, tag)

\* C24: Before Veryl appends one entry to file_scope_import per top-level
\* ImportDeclaration, in source order, None where insert_node fails; every
\* module, interface and package opened afterwards (and resolved to a node)
\* requests one edge tagged with its own context per entry that is not None
\* and none for a None entry.
C24_ImportsKeepPositions ==
    [][ /\ \A imports \in SeqsUpTo(Paths, MaxImports + 1) :
              VerylBefore(imports) =>
                  /\ file_scope_import' =
                        [i \in 1..Len(imports) |->
                            IF imports[i] \in Syms THEN Some(imports[i]) ELSE None]
                  /\ errors' = ClaimUnresolved(imports)
                  /\ dag_edges' = dag_edges
        /\ (last'.prod \in FileScope /\ Len(walk') > Len(walk))
           => /\ file_scope_import' = file_scope_import
              /\ ctx' = Append(ctx, OwnContext(last'.prod))
              /\ IF last'.arg \in Syms
                 THEN LET dag == ClaimImportEdges([edges |-> dag_edges, errors |-> errors],
                                                  file_scope_import, last'.arg,
                                                  OwnContext(last'.prod))
                      IN  dag_edges' = dag.edges /\ errors' = dag.errors
                 ELSE dag_edges' = dag_edges ]_vars

\* import 0; import n; then a module, interface or package: the second entry
\* is still the second, and the edge n -> m is the only one.
C24_Witness ==
    /\ last.prod \in FileScope /\ last.point = "Before" /\ last.arg \in Syms
    /\ Len(file_scope_import) = 2
    /\ file_scope_import[1] = None /\ file_scope_import[2] # None
    /\ dag_edges = {<<file_scope_import[2][1], last.arg, OwnContext(last.prod)>>}
    /\ errors = <<to_analyzer_error_unresolved(0)>>

\* The step is the Before callback of a declaration, or of a ScopedIdentifier
\* taken as a type reference; last'.arg is the path it names.
PointOfUse ==
    /\ pass = "walk"
    /\ \/ last'.prod \in ScopeOpening /\ Len(walk') > Len(walk)
       \/ last'.prod \in {"LocalDeclaration", "TypeDefDeclaration"}
       \/ /\ last'.prod = "ScopedIdentifier"
          /\ ctx # <<>> /\ Last(ctx) # "ExpressionIdentifier"

\* C25: when insert_node fails for a declaration or a type reference, one
\* undefined_identifier is appended for it, no node, no edge and no owned
\* entry is created, parent stays as it is, and the walk goes on.
C25_UnresolvedReportedOnce ==
    [][ (PointOfUse /\ last'.arg \notin Syms)
        => /\ errors' = Append(errors, to_analyzer_error_unresolved(last'.arg))
           /\ dag_edges' = dag_edges /\ dag_nodes' = dag_nodes
           /\ owned' = owned /\ parent' = parent
           /\ pass' = "walk" ]_vars

\* A type reference that does not resolve was reported under a parent that
\* owns a node and has an edge.
C25_Witness ==
    /\ last.prod = "ScopedIdentifier" /\ last.arg \notin Syms
    /\ pass = "walk"
    /\ errors # <<>> /\ Last(errors) = to_analyzer_error_unresolved(last.arg)
    /\ ctx # <<>> /\ Last(ctx) # "ExpressionIdentifier"
    /\ parent # <<>> /\ owned[Last(parent)] # <<>>
    /\ \E e \in dag_edges : e[1] = Last(parent)

\* ------------------------------------------------------- CheckMsbLsb, part 2
\* The TypeDefs trace_type enters from a type, in order, while the stack
\* holds its calls.
RECURSIVE Entered(_, _)
Entered(type, depth) ==
    IF depth > StackDepth THEN <<>>
    ELSE LET symbol == IF type.kind = "UserDefined"
                       THEN symbol_table_resolve(<<type.path>>)
                       ELSE None
         IN  IF symbol # None /\ symbol[1].kind = "TypeDef"
             THEN <<type.path>> \o Entered(symbol[1].type[1], depth + 1)
             ELSE <<>>

\* C26 as claimed: the trace_type call of an Msb returns, and it enters no
\* TypeDef twice, whatever the symbol table holds.
C26_TraceTypeTerminates ==
    [][ (MsbStep /\ in_expression_identifier /\ in_select /\ TopTyped) =>
            LET type == SymbolTable[TopPath[1]].type[1]
                entered == Entered(type, 1)
            IN  /\ ~trace_type(type, 1).overflow
                /\ pass' # "abort"
                /\ \A i, j \in 1..Len(entered) :
                       entered[i] = entered[j] => i = j ]_vars

\* The type stands for a TypeDef: it is UserDefined and its path resolves to
\* a TypeDef symbol.
Aliases(type) ==
    /\ type.kind = "UserDefined"
    /\ symbol_table_resolve(<<type.path>>) # None
    /\ symbol_table_resolve(<<type.path>>)[1].kind = "TypeDef"

\* C27: the chain trace_type returns starts with the type itself, continues
\* at every type that stands for a TypeDef with the type of that TypeDef,
\* ends at the first type that does not, and is one longer than the number
\* of TypeDefs followed.
C27_ChainFollowsTypeDefs ==
    [][ (MsbStep /\ in_expression_identifier /\ in_select /\ TopTyped) =>
            LET type == SymbolTable[TopPath[1]].type[1]
                traced == trace_type(type, 1)
                types == traced.types
            IN  ~traced.overflow =>
                   /\ pass' = "walk"
                   /\ types # <<>> /\ types[1] = type
                   /\ \A i \in 1..(Len(types) - 1) :
                          /\ Aliases(types[i])
                          /\ types[i + 1] = symbol_table_resolve(<<types[i].path>>)[1].type[1]
                   /\ ~Aliases(types[Len(types)])
                   /\ Len(types) = 1 + Len(Entered(type, 1)) ]_vars

\* The chain `types` was traced for the Msb the walk visited last.
Traced(types) ==
    /\ last.prod = "Msb" /\ pass = "walk"
    /\ in_expression_identifier /\ in_select /\ TopTyped
    /\ trace_type(SymbolTable[TopPath[1]].type[1], 1).types = types

\* b[msb] with b: T[2], type T = U<16>, type U = logic<2, 3>[5] was traced
\* through two TypeDefs to logic.
C27_Witness ==
    Traced(<<SymbolTable[2].type[1], SymbolTable[7].type[1], SymbolTable[8].type[1]>>)

\* What the path on top of identifier_path resolves to.
TopFound == symbol_table_resolve(TopPath)

\* The traced chain of the symbol's type has no dimension of index k.
NoDimension(k) ==
    /\ TopTyped
    /\ ~trace_type(SymbolTable[TopPath[1]].type[1], 1).overflow
    /\ k >= Len(ClaimDims(trace_type(SymbolTable[TopPath[1]].type[1], 1).types))

\* C28: an Msb visited with both flags set gets exactly one unknown_msb and
\* no MSB-table entry when the path does not resolve, resolves to a symbol
\* that is neither Variable nor Port, resolves to a Port without a type, or
\* the traced chain has fewer dimensions than the select index asks for.
C28_UnknownMsb ==
    [][ (/\ MsbStep /\ in_expression_identifier /\ in_select
         /\ \/ TopFound = None
            \/ TopFound # None /\ TopFound[1].kind \notin {"Variable", "Port"}
            \/ TopFound # None /\ TopFound[1].kind = "Port" /\ TopFound[1].type = None
            \/ NoDimension(Last(select_dimension)))
        => /\ msb_errors' = Append(msb_errors, msb_error("unknown_msb", next_token))
           /\ msb_table' = msb_table
           /\ pass' = "walk" ]_vars

\* The Msb visited last was reported as unknown_msb with both flags set.
Unknown ==
    /\ last.prod = "Msb" /\ pass = "walk"
    /\ in_expression_identifier /\ in_select
    /\ msb_errors # <<>>
    /\ Last(msb_errors) = msb_error("unknown_msb", last.arg)
    /\ last.arg \notin DOMAIN msb_table

\* z[lsb][msb] with z: W<4>, W unresolved: the one dimension of z is index
\* 0, the msb in the second Select asks for index 1.
C28_Witness ==
    /\ Unknown
    /\ TopPath = <<12>>
    /\ Last(select_dimension) = 1
    /\ NoDimension(1) /\ ~NoDimension(0)

\* C29: the Lsb callback leaves identifier_path, select_dimension, both
\* flags and the MSB table as they are in both phases; Before appends one
\* invalid_lsb unless both flags are set, After appends nothing.
C29_LsbFrame ==
    [][ LsbStep =>
            /\ UNCHANGED <<identifier_path, select_dimension,
                           in_expression_identifier, in_select, msb_table>>
            /\ msb_errors' = IF in_expression_identifier /\ in_select
                             THEN msb_errors
                             ELSE Append(msb_errors, msb_error("invalid_lsb", next_token))
            /\ lsb(CheckMsbLsb, "Before", next_token) =
                   [CheckMsbLsb EXCEPT !.errors = msb_errors']
            /\ lsb(CheckMsbLsb, "After", next_token) = CheckMsbLsb
            /\ pass' = "walk" ]_vars

\* Two Lsb tokens were visited: the first outside a Select of an expression
\* identifier and reported, the second inside one and not reported.
C29_Witness ==
    /\ last = [prod |-> "Lsb", point |-> "After", arg |-> 2]
    /\ in_expression_identifier /\ in_select
    /\ identifier_path # <<>> /\ Last(identifier_path) # <<>>
    /\ msb_errors = <<msb_error("invalid_lsb", 1)>>

\* C30 as claimed: identifier_path and select_dimension have equal length,
\* both are non-empty whenever in_expression_identifier is true, and
\* in_expression_identifier is true whenever identifier_path is non-empty.
C30_FlagMirrorsStacks ==
    /\ Len(identifier_path) = Len(select_dimension)
    /\ in_expression_identifier => identifier_path # <<>> /\ select_dimension # <<>>
    /\ identifier_path # <<>> => in_expression_identifier

\* -------------------------------------------------------- Aligner, part 2
\* The tokens an item may deliver to an accumulator after the items it has
\* recorded: on the line of the last item or up to MaxGap lines below.
ProbeTokens(self) ==
    {Token(line, 30, n) : line \in Max(1, self.line)..(self.line + MaxGap), n \in {1, 6}}

\* An accumulator between start_item and finish_item: the item delivered no
\* token, or one token.
Started(self) ==
    {start_item(self)}
    \cup {token(start_item(self), aligner.target, x) : x \in ProbeTokens(self)}

\* C31: finish_item with last_location set leaves (last_location, width) as
\* the last element of rest, max_width at least that width, line equal to
\* last_location.line, width 0 and enable false, also when it flushed the
\* group first; with last_location unset it changes nothing but enable.
C31_FinishItemPostconditions ==
    \A kind \in DOMAIN aligner.aligns : \A s \in Started(aligner.aligns[kind]) :
        IF s.last_location = None
        THEN finish_item(s) = [s EXCEPT !.enable = FALSE]
        ELSE /\ finish_item(s).rest # <<>>
             /\ Last(finish_item(s).rest) = <<s.last_location[1], s.width>>
             /\ finish_item(s).max_width >= s.width
             /\ finish_item(s).line = s.last_location[1].line
             /\ finish_item(s).width = 0
             /\ ~finish_item(s).enable

\* An accumulator that holds a group of two items receives an item two lines
\* below: finish_item flushes the group and records the item alone.
C31_Witness ==
    \E kind \in DOMAIN aligner.aligns : \E s \in Started(aligner.aligns[kind]) :
        /\ Len(s.rest) > 1
        /\ s.last_location # None
        /\ s.last_location[1].line - s.line > 1
        /\ Len(finish_item(s).rest) = 1
        /\ finish_item(s).max_width < s.max_width

RECURSIVE GroupItems(_)
GroupItems(groups) ==
    IF groups = <<>> THEN 0 ELSE Len(Head(groups).rest) + GroupItems(Tail(groups))

\* C32: after align every accumulator's rest is empty and its max_width is
\* 0, every item a finish_item recorded is in a closed group, and the
\* location of every recorded item has an entry in the public additions.
C32_AlignLeavesNoItemBehind ==
    AlignDone =>
        \A kind \in DOMAIN aligner.aligns :
            /\ aligner.aligns[kind].rest = <<>>
            /\ aligner.aligns[kind].max_width = 0
            /\ GroupItems(aligner.aligns[kind].groups) = aligner.aligns[kind].index
            /\ \A g \in 1..Len(aligner.aligns[kind].groups) :
                   \A i \in 1..Len(aligner.aligns[kind].groups[g].rest) :
                       aligner.aligns[kind].groups[g].rest[i][1] \in DOMAIN aligner.additions

\* align closed the last group of a kind that recorded items in two groups.
C32_Witness ==
    /\ AlignDone
    /\ \E kind \in DOMAIN aligner.aligns :
           /\ Len(aligner.aligns[kind].groups) > 1
           /\ aligner.aligns[kind].index = MaxLines
           /\ Len(Last(aligner.aligns[kind].groups).rest) > 1

\* C33: token, space, dummy_location, dummy_token and duplicated_token leave
\* every field of an accumulator whose enable is false unchanged, and a
\* token broadcast to all accumulators changes the enabled ones only.
C33_DisabledIgnoresTokens ==
    \A kind \in DOMAIN aligner.aligns : \A x \in ProbeTokens(aligner.aligns[kind]) :
        /\ ~aligner.aligns[kind].enable =>
               /\ token(aligner.aligns[kind], aligner.target, x) = aligner.aligns[kind]
               /\ space(aligner.aligns[kind], 1) = aligner.aligns[kind]
               /\ dummy_location(aligner.aligns[kind], Location(aligner.target, x))
                      = aligner.aligns[kind]
               /\ dummy_token(aligner.aligns[kind], aligner.target, x)
                      = aligner.aligns[kind]
               /\ duplicated_token(aligner.aligns[kind], x, 0) = aligner.aligns[kind]
        /\ Live(aligns_start_item(aligner, kind)) =>
               \A k \in DOMAIN aligner.aligns :
                   aligns_start_item(aligner, kind).aligns[k].enable
                   <=> veryl_token(aligns_start_item(aligner, kind), x).aligns[k]
                           # aligns_start_item(aligner, kind).aligns[k]

\* A disabled accumulator that holds recorded items and a last location,
\* beside another one an item enables.
C33_Witness ==
    /\ Live(aligner)
    /\ run.phase = "walk"
    /\ \E kind, k \in DOMAIN aligner.aligns :
           /\ kind # k
           /\ ~aligner.aligns[k].enable
           /\ Len(aligner.aligns[k].rest) > 1
           /\ aligner.aligns[k].last_location # None
           /\ aligner.aligns[k].max_width > 0
           /\ Live(aligns_start_item(aligner, kind))
           /\ aligns_start_item(aligner, kind).aligns[kind].enable

\* The inst port items and inst parameter items without expression.
BareInstItems ==
    {i \in 1..Len(input) :
        /\ input[i].prod \in {"InstPortItem", "InstParameterItem"}
        /\ input[i].arg.expression = None}

\* The key of the identifier of item i, and the key of its duplicate.
IdentifierKey(i) == Location("emitter", input[i].arg.identifier.identifier_token)
DuplicatedKey(i) == [IdentifierKey(i) EXCEPT !.duplicated = Some(0)]

\* C34: in the emitter the padding of duplicated_token(t, 0) is stored under
\* t's location with duplicated = Some(0), a key distinct from t's own: for
\* an inst port or inst parameter item without expression the merged map
\* holds the IDENTIFIER padding under the one key and the EXPRESSION padding
\* under the other, and neither holds the sum of the two.
C34_DuplicatedKeyIsSeparate ==
    (AlignDone /\ aligner.target = "emitter") =>
        \A i \in BareInstItems :
            /\ IdentifierKey(i) # DuplicatedKey(i)
            /\ IdentifierKey(i) \in DOMAIN aligner.additions
            /\ DuplicatedKey(i) \in DOMAIN aligner.additions
            /\ IdentifierKey(i) \notin DOMAIN aligner.aligns[EXPRESSION].additions
            /\ DuplicatedKey(i) \notin DOMAIN aligner.aligns[IDENTIFIER].additions
            /\ aligner.additions[IdentifierKey(i)]
                   = aligner.aligns[IDENTIFIER].additions[IdentifierKey(i)]
            /\ aligner.additions[DuplicatedKey(i)]
                   = aligner.aligns[EXPRESSION].additions[DuplicatedKey(i)]

\* An inst port item and an inst parameter item without expression, one of
\* them padded as an identifier and not as an expression.
C34_Witness ==
    /\ AlignDone /\ aligner.target = "emitter"
    /\ \E i, j \in BareInstItems :
           /\ input[i].prod = "InstPortItem"
           /\ input[j].prod = "InstParameterItem"
           /\ aligner.additions[IdentifierKey(i)] > 0
           /\ aligner.additions[DuplicatedKey(i)] = 0

\* The scalar types a declaration on the next line may hold: logic<8>, T,
\* T<8>, with T in the symbol table or not.
NextLine == IF input = <<>> THEN 1 ELSE Last(input).line + 1

ScalarTypes ==
    {VarItem(NextLine, t, FALSE).arg.array_type.scalar_type :
        t \in {"logic", "found", "found_width", "unknown", "unknown_width"}}

\* The location and the width of the WIDTH item of a scalar type: the real
\* width, or a zero-width dummy at the TYPE accumulator's last location.
WidthItem(self, arg) ==
    IF arg.width # None
    THEN <<Location(self.target, arg.width[1].r_angle),
           (IF self.target = "emitter" THEN 8 ELSE 3)>>
    ELSE <<self.aligns[TYPE].last_location[1], 0>>

\* C35 as claimed: in both engines a scalar_type visit outside an expression
\* returns having finished one TYPE item and then one WIDTH item, the WIDTH
\* item being the real width or a zero-width dummy at the TYPE accumulator's
\* last location, and no item of another kind; inside an expression it
\* changes nothing.
C35_ScalarTypeOneTypeOneWidth ==
    (Live(aligner) /\ run.phase = "walk") =>
        \A arg \in ScalarTypes :
            /\ scalar_type(in_expression_push(aligner), arg) = in_expression_push(aligner)
            /\ Live(scalar_type(aligner, arg))
            /\ \A kind \in DOMAIN aligner.aligns :
                   /\ ~scalar_type(aligner, arg).aligns[kind].enable
                   /\ scalar_type(aligner, arg).aligns[kind].index =
                          aligner.aligns[kind].index
                          + (IF kind \in {TYPE, WIDTH} THEN 1 ELSE 0)
            /\ scalar_type(aligner, arg).aligns[TYPE].last_location # None
            /\ Last(scalar_type(aligner, arg).aligns[WIDTH].rest)
                   = WidthItem(scalar_type(aligner, arg), arg)

\* The items a kind recorded in the order of finish_item.
RECURSIVE Concat(_)
Concat(seqs) == IF seqs = <<>> THEN <<>> ELSE Head(seqs) \o Concat(Tail(seqs))

Recorded(kind) == Concat(Rests(kind))

\* The part of an item that holds its clock domain.
ClockDomainOf(item) ==
    IF item.prod = "PortDeclarationItem" THEN item.arg.group.clock_domain
    ELSE item.arg.clock_domain

\* The CLOCK_DOMAIN item of a declaration: with an annotation its last token
\* and its length plus 1, without one the anchor and 0.
ClockDomainItem(item, anchor) ==
    IF ClockDomainOf(item) # None
    THEN <<Location("formatter", ClockDomainOf(item)[1].identifier.identifier_token),
           ClockDomainOf(item)[1].back_quote.length
           + ClockDomainOf(item)[1].identifier.identifier_token.length + 1>>
    ELSE <<Location("formatter", anchor), 0>>

HasClockDomainItem(item) ==
    item.prod \in {"LetStatement", "LetDeclaration", "VarDeclaration", "PortDeclarationItem"}

\* The token before the place of the clock domain: the direction of a port
\* of a concrete type, else the colon.
BeforeClockDomain(item) ==
    IF item.prod = "PortDeclarationItem" /\ item.arg.group.port_type = "concrete"
    THEN item.arg.group.direction.token
    ELSE item.arg.colon

RECURSIVE ClockDomainAtColon(_)
ClockDomainAtColon(items) ==
    IF items = <<>> THEN <<>>
    ELSE (IF HasClockDomainItem(Head(items))
          THEN <<ClockDomainItem(Head(items), Head(items).arg.colon)>> ELSE <<>>)
         \o ClockDomainAtColon(Tail(items))

RECURSIVE ClockDomainAtAnchor(_)
ClockDomainAtAnchor(items) ==
    IF items = <<>> THEN <<>>
    ELSE (IF HasClockDomainItem(Head(items))
          THEN <<ClockDomainItem(Head(items), BeforeClockDomain(Head(items)))>>
          ELSE <<>>)
         \o ClockDomainAtAnchor(Tail(items))

FormatterWalk == aligner.target = "formatter" /\ run.n = 1 /\ Live(aligner)

\* C36 as claimed: in the formatter every let statement, let declaration, var
\* declaration and port declaration item records exactly one CLOCK_DOMAIN
\* item, of the annotation's length plus 1, or of width 0 at the colon of
\* the declaration.
C36_ClockDomainAtColon ==
    FormatterWalk => Recorded(CLOCK_DOMAIN) = ClockDomainAtColon(input)

\* C36 amended: the zero-width item of a port declaration item of a concrete
\* type is at the direction token, which follows the colon; the others are
\* at the colon.
C36_ClockDomainAtAnchor ==
    FormatterWalk => Recorded(CLOCK_DOMAIN) = ClockDomainAtAnchor(input)

\* A tree of a let statement, a var declaration and a port of a concrete
\* type, with and without annotation.
C36_Witness ==
    /\ FormatterWalk
    /\ Len(Recorded(CLOCK_DOMAIN)) = MaxLines
    /\ \E i, j, k \in 1..Len(input) :
           /\ input[i].prod = "LetStatement"
           /\ input[j].prod = "VarDeclaration" /\ ClockDomainOf(input[j]) # None
           /\ input[k].prod = "PortDeclarationItem" /\ ClockDomainOf(input[k]) = None
           /\ input[k].arg.group.port_type = "concrete"

\* C37: in every state of an accumulator, also right after a finish_item,
\* max_width is the largest width in rest (0 when rest is empty), so no
\* max_width - w of finish_group is below zero, and every padding in an
\* accumulator's additions and in the public additions is 0 or more.
C37_MaxWidthBoundsRest ==
    /\ \A kind \in DOMAIN aligner.aligns :
           /\ aligner.aligns[kind].max_width = MaxWidth(aligner.aligns[kind].rest)
           /\ \A i \in 1..Len(aligner.aligns[kind].rest) :
                  aligner.aligns[kind].max_width - aligner.aligns[kind].rest[i][2] >= 0
           /\ \A loc \in DOMAIN aligner.aligns[kind].additions :
                  aligner.aligns[kind].additions[loc] >= 0
           /\ \A s \in Started(aligner.aligns[kind]) :
                  /\ finish_item(s).max_width = MaxWidth(finish_item(s).rest)
                  /\ \A loc \in DOMAIN finish_group(finish_item(s)).additions :
                         finish_group(finish_item(s)).additions[loc] >= 0
    /\ \A loc \in DOMAIN aligner.additions : aligner.additions[loc] >= 0

\* A group of a narrow item, a wider one and a narrow one again, merged into
\* the public additions with a padding above 0.
C37_Witness ==
    /\ AlignDone
    /\ \E kind \in DOMAIN aligner.aligns :
           \E g \in 1..Len(aligner.aligns[kind].groups) :
               /\ Len(aligner.aligns[kind].groups[g].rest) = 3
               /\ aligner.aligns[kind].groups[g].rest[1][2]
                      < aligner.aligns[kind].groups[g].rest[2][2]
               /\ aligner.aligns[kind].groups[g].rest[3][2]
                      < aligner.aligns[kind].groups[g].rest[2][2]
               /\ aligner.additions[aligner.aligns[kind].groups[g].rest[3][1]] > 0

\* C38 as claimed: every entry finish_item pushes carries a location the
\* accumulator received between the matching start_item and that finish_item:
\* no item that received none is recorded under the location an earlier item
\* left, and no group of types holds a location twice.
C38_RecordedLocationIsFresh ==
    \A kind \in DOMAIN aligner.aligns :
        /\ ~aligner.aligns[kind].stale
        /\ kind = TYPE =>
               \A g \in 1..Len(Rests(kind)) : ~SameLocationTwice(Rests(kind)[g])

\* The lines of the items a kind recorded, in the order of finish_item.
RecordedLines(kind) == [i \in 1..Len(Recorded(kind)) |-> Recorded(kind)[i][1].line]

\* C39 as claimed: for every accumulator and every finish_item of a walk in
\* source order last_location.line is at least line: loc.line - self.line
\* never goes below zero and line never decreases, also for items anchored at
\* another accumulator's last location and for items recorded under a
\* location left over from an earlier item.
C39_LineNeverDecreases ==
    \A kind \in DOMAIN aligner.aligns :
        /\ ~aligner.aligns[kind].underflow
        /\ \A i \in 1..(Len(RecordedLines(kind)) - 1) :
               RecordedLines(kind)[i] <= RecordedLines(kind)[i + 1]

\* ----------------------------------------------------- CreateTypeDag, part 3
\* C40: between the callbacks of the walk the parent stack is no longer than
\* the ctx stack, so under an existing parent ctx is not empty and
\* ctx.last().unwrap() succeeds, also inside a scope whose insert_node
\* failed.
C40_ParentWithinCtx ==
    /\ Len(parent) <= Len(ctx)
    /\ parent # <<>> => ctx # <<>>

\* A declaration whose insert_node failed under an existing parent: its
\* Before callback pushed its context and no parent.
C40_Witness ==
    /\ pass = "walk"
    /\ last.prod \in NestedScope /\ last.point = "Before"
    /\ last.arg \notin Syms
    /\ errors # <<>>
    /\ parent # <<>>
    /\ Len(parent) < Len(ctx)

====
